---- MODULE Spec2Model ----
(***************************************************************************)
(* batterdb: the Repository -> Database -> Stack hierarchy of              *)
(* src/repository (repository.go, database.go, stack.go), its locks, its   *)
(* identifier-or-name lookup and its gob persistence.                      *)
(***************************************************************************)
EXTENDS Integers, Sequences, FiniteSets, TLC

VARIABLES
    Databases,  \* Repository.Databases: map[name]*Database, nested by value
    now,        \* the wall clock read by time.Now()
    nextID,     \* number of identifiers uuid.New() has handed out
    file,       \* the repository file on disk
    pc,         \* pc[p]: where caller p stands inside its current call
    loc,        \* loc[p]: receiver and argument of caller p's current call
    held,       \* held[p]: the locks caller p holds, as <<lock, mode>>
    ret,        \* what the last completed call returned, until the next call
    server,     \* the Service: where Start and Shutdown stand, and its persistDB flag
    batch,      \* BatchOperationsHandler: its input, its loop index, its output
    local,      \* local[p]: the local variables of the handler caller p runs
    mw,         \* TimeoutMiddleware: one request, its goroutines, w and doneChan
    hist        \* completed Stack operations, in the order they took effect

vars == <<Databases, now, nextID, file, pc, loc, held, ret, server, batch, local, mw, hist>>

-----------------------------------------------------------------------------
(* Bounds of the model.                                                    *)

NumProcs == 2
MaxClock == 2
MaxOps   == 4
MaxLen   == 2
MaxID    == 2
NumPlain == 2

\* The operations of a batch are at most MaxBatch.
MaxBatch == 3

Procs == 1..NumProcs

-----------------------------------------------------------------------------
(* Strings and identifiers.  A uuid.UUID is a number, uuid.Nil is 0.  A     *)
(* string is plain text that uuid.Parse rejects, or one of two textual      *)
(* forms of an identifier that uuid.Parse accepts: the canonical form      *)
(* UUID.String() prints, and the upper-case form.                          *)

Nil == 0

Plain(k) == [form |-> "plain", n |-> k]

UUIDString(u) == [form |-> "canon", n |-> u]

UpperString(u) == [form |-> "upper", n |-> u]

ParseOK(s) == s.form # "plain"

UUIDParse(s) == IF ParseOK(s) THEN s.n ELSE Nil

UUIDs == 1..MaxID

Strings ==
    {Plain(k) : k \in 1..NumPlain}
        \cup {UUIDString(u) : u \in UUIDs} \cup {UpperString(u) : u \in UUIDs}

-----------------------------------------------------------------------------
(* Elements: the values of type any that the callers push.  The type field *)
(* is the Go type the JSON decoder gives the value.                        *)

NilElement == [type |-> "nil", v |-> 0]

Number(k) == [type |-> "float64", v |-> k]

Object == [type |-> "map[string]interface {}", v |-> 0]

Array == [type |-> "[]interface {}", v |-> 0]

Elements == {Number(1), Number(2), NilElement, Object, Array}

-----------------------------------------------------------------------------
(* Maps.                                                                   *)

EmptyMap == [k \in {} |-> 0]

MapSet(m, k, v) == [x \in DOMAIN m \cup {k} |-> IF x = k THEN v ELSE m[x]]

MapDelete(m, k) == [x \in DOMAIN m \ {k} |-> m[x]]

-----------------------------------------------------------------------------
(* Locks: sync.RWMutex of the Repository, of a Database, of a Stack.       *)

RepoMx == <<"repo", 0>>

DbMx(id) == <<"db", id>>

StackMx(id) == <<"stack", id>>

\* A Lock that excludes nobody.
LockUnguarded(l) == TRUE

CanLock(l) == \A q \in Procs : <<l, "W">> \notin held[q] /\ <<l, "R">> \notin held[q]

CanRLock(l) == \A q \in Procs : <<l, "W">> \notin held[q]

-----------------------------------------------------------------------------
(* Stack (stack.go).                                                       *)

NewStack(id, n, db, t) ==
    [CreatedAt |-> t, UpdatedAt |-> t, ReadAt |-> t, database |-> db,
     Name |-> n, Data |-> <<>>, ID |-> id]

\* A setReadTime that stores nothing.
setReadTimeNot(s, t) == s

setReadTime(s, t) == [s EXCEPT !.ReadAt = t]

setUpdateTime(s, t) == [setReadTime(s, t) EXCEPT !.UpdatedAt = t]

\* Stack.Database(): Nil is the nil *Database.
StackDatabase(s) == s.database

Top(d) == d[Len(d)]

ButLast(d) == SubSeq(d, 1, Len(d) - 1)

NoString == Plain(0)

\* loc[p]: the receiver of the call (the keys and identifiers of the Database
\* and the Stack the caller's pointer leads to), its string argument id, its
\* element argument arg, a time read t, and Persist's encoding buffer buf.
NoLoc ==
    [db |-> NoString, dbid |-> Nil, st |-> NoString, stid |-> Nil, id |-> NoString,
     arg |-> NilElement, t |-> 0, buf |-> <<>>]

\* ret: the last return, until the next call is made: the caller, the
\* method, its string argument, the element returned, the identifier and
\* name of the entry returned (for Drop: of the entry removed), the error,
\* and for an enumeration the names of the entries returned, in order.
Ret(p, op, id, val, ent, name, err) ==
    [p |-> p, op |-> op, id |-> id, val |-> val, ent |-> ent, name |-> name, err |-> err,
     list |-> <<>>]

\* The step that ends caller p's call of the method op.
Returns(p, op) == pc[p] = op /\ pc'[p] = "idle"

NoRet == Ret(0, "none", NoString, NilElement, Nil, NoString, "nil")

\* hist is recorded from the empty history on; NoHist is the history of a
\* run that records none.
NoHist == <<[op |-> "unrecorded", val |-> NilElement, conc |-> FALSE]>>

Recording == hist # NoHist

\* conc: another caller was inside Push when the operation took effect.
Event(op, p, val) ==
    [op |-> op, val |-> val,
     conc |-> \E q \in Procs \ {p} : pc[q] \in {"Push_lock", "Push_append", "Push_UpdatedAt"}]

Record(h, ev) == IF h = NoHist THEN h ELSE Append(h, ev)

Mutators == {"Push_lock", "Push_append", "Push_UpdatedAt", "Pop_lock", "Pop_body",
             "Flush_lock", "Flush_body"}

InFlight(pcs) == Cardinality({q \in Procs : pc[q] \in pcs})

NewSteps ==
    {"Repository.New_lock", "Repository.New_body", "Repository.New_insert",
     "Database.New_lock", "Database.New_body", "Database.New_insert"}

DropSteps ==
    {"Repository.Drop_lock", "Repository.Drop_body", "Database.Drop_lock", "Database.Drop_body"}

\* The steps of the operations hist records.
Recorded == Mutators \cup NewSteps \cup DropSteps

\* The hist entry of a New or a Drop that returned r: its string argument,
\* the identifier of the entry it created or removed, the name of the entry
\* it removed, its error, the identifier of the Database it was called on
\* (Nil: on the Repository), and whether another caller was inside New with
\* the same argument on the same receiver.
Outcome(p, r) ==
    [op |-> r.op, val |-> NilElement, id |-> r.id, ent |-> r.ent, name |-> r.name,
     err |-> r.err,
     dbid |-> loc[p].dbid,
     conc |-> \E q \in Procs \ {p} :
                 /\ pc[q] \in NewSteps
                 /\ loc[q].id = loc[p].id /\ loc[q].dbid = loc[p].dbid]

\* The Database and the Stack a caller's pointer leads to, while they are
\* still in the Repository.
LiveDatabase(p) ==
    /\ loc[p].db \in DOMAIN Databases
    /\ Databases[loc[p].db].ID = loc[p].dbid

LiveStack(p) ==
    /\ LiveDatabase(p)
    /\ loc[p].st \in DOMAIN Databases[loc[p].db].Stacks
    /\ Databases[loc[p].db].Stacks[loc[p].st].ID = loc[p].stid

DatabaseOf(p) == Databases[loc[p].db]

StackOf(p) == Databases[loc[p].db].Stacks[loc[p].st]

StoreStack(p, s) ==
    Databases' = [Databases EXCEPT ![loc[p].db].Stacks[loc[p].st] = s]

\* A caller that holds a *Stack calls one of its methods.
StackCall(p, op, arg) ==
    /\ pc[p] = "idle"
    /\ op \in Recorded /\ Recording => Len(hist) + InFlight(Recorded) < MaxOps
    /\ \E d \in DOMAIN Databases : \E s \in DOMAIN Databases[d].Stacks :
           /\ op = "Push_lock" =>
                  Len(Databases[d].Stacks[s].Data)
                      + InFlight({"Push_lock", "Push_append"}) < MaxLen
           /\ loc' = [loc EXCEPT ![p] =
                        [NoLoc EXCEPT !.db = d, !.dbid = Databases[d].ID, !.st = s,
                                      !.stid = Databases[d].Stacks[s].ID, !.arg = arg]]
    /\ pc' = [pc EXCEPT ![p] = op]
    /\ ret' = NoRet
    /\ UNCHANGED <<Databases, now, nextID, server, batch, local, mw, file, held, hist>>

Acquire(p, from, lock, mode, to) ==
    /\ pc[p] = from
    /\ IF mode = "W" THEN CanLock(lock) ELSE CanRLock(lock)
    /\ held' = [held EXCEPT ![p] = @ \cup {<<lock, mode>>}]
    /\ pc' = [pc EXCEPT ![p] = to]
    /\ UNCHANGED <<Databases, now, nextID, server, batch, local, mw, file, loc, ret, hist>>

\* A return that leaves the lock locked.
FinishLocked(p, r, lock, mode) ==
    /\ pc' = [pc EXCEPT ![p] = "idle"]
    /\ loc' = [loc EXCEPT ![p] = NoLoc]
    /\ ret' = r
    /\ UNCHANGED held

\* The deferred Unlock and the return to the caller.
Finish(p, r, lock, mode) ==
    /\ held' = [held EXCEPT ![p] = @ \ {<<lock, mode>>}]
    /\ pc' = [pc EXCEPT ![p] = "idle"]
    /\ loc' = [loc EXCEPT ![p] = NoLoc]
    /\ ret' = r

Return(p, op, val, lock, mode) ==
    Finish(p, Ret(p, op, NoString, val, Nil, NoString, "nil"), lock, mode)

StackBodies ==
    {"Push_append", "Push_UpdatedAt", "Pop_body", "Size_body", "Peek_setReadTime", "Flush_body"}

DatabaseBodies ==
    {"Database.Stack_body", "Database.New_body", "Database.New_insert", "Database.Drop_body",
     "Database.SortStacks_body"}

\* A caller whose Database or Stack was dropped under it works on an object
\* the Repository no longer leads to: its call completes and changes nothing
\* in the Repository.  What it returns is not modelled.
Detached(p) ==
    /\ \/ pc[p] \in StackBodies /\ ~LiveStack(p)
       \/ pc[p] \in DatabaseBodies /\ ~LiveDatabase(p)
    /\ held' = [held EXCEPT ![p] = {}]
    /\ pc' = [pc EXCEPT ![p] = "idle"]
    /\ loc' = [loc EXCEPT ![p] = NoLoc]
    /\ ret' = Ret(p, "detached", NoString, NilElement, Nil, NoString, "nil")
    /\ UNCHANGED <<Databases, now, nextID, server, batch, local, mw, file, hist>>

PushCall(p, inputs) == \E e \in inputs : StackCall(p, "Push_lock", e)

PushLock(p) == Acquire(p, "Push_lock", StackMx(loc[p].stid), "W", "Push_append")

\* An append that stores into the last occupied slot: what two unguarded
\* appends on the same backing array do.
appendLost(d, e) == IF Len(d) = 0 THEN <<e>> ELSE [d EXCEPT ![Len(d)] = e]

append(d, e) == Append(d, e)

\* s.setUpdateTime(time.Now()); s.Data = append(s.Data, element)
PushAppend(p) ==
    /\ pc[p] = "Push_append"
    /\ LiveStack(p)
    /\ StoreStack(p, [setUpdateTime(StackOf(p), now) EXCEPT !.Data = append(@, loc[p].arg)])
    /\ hist' = Record(hist, Event("Push", p, loc[p].arg))
    /\ pc' = [pc EXCEPT ![p] = "Push_UpdatedAt"]
    /\ UNCHANGED <<now, nextID, server, batch, local, mw, file, loc, held, ret>>

\* s.UpdatedAt = time.Now(), then the deferred Unlock.
PushUpdatedAt(p) ==
    /\ pc[p] = "Push_UpdatedAt"
    /\ LiveStack(p)
    /\ StoreStack(p, [StackOf(p) EXCEPT !.UpdatedAt = now])
    /\ Return(p, "Push", NilElement, StackMx(loc[p].stid), "W")
    /\ UNCHANGED <<now, nextID, server, batch, local, mw, file, hist>>

PopCall(p) == StackCall(p, "Pop_lock", NilElement)

PopLock(p) == Acquire(p, "Pop_lock", StackMx(loc[p].stid), "W", "Pop_body")

\* A Pop that returns the oldest element instead of the newest.
PopResultFirst(d) == IF Len(d) = 0 THEN NilElement ELSE d[1]

PopResult(d) == IF Len(d) = 0 THEN NilElement ELSE Top(d)

PopData(d) == IF Len(d) = 0 THEN d ELSE ButLast(d)

PopBody(p) ==
    /\ pc[p] = "Pop_body"
    /\ LiveStack(p)
    /\ LET s == StackOf(p) IN
       /\ IF Len(s.Data) = 0
          THEN StoreStack(p, setReadTime(s, now))
          ELSE StoreStack(p, [setUpdateTime(s, now) EXCEPT !.Data = PopData(s.Data)])
       /\ hist' = Record(hist, Event("Pop", p, PopResult(s.Data)))
       /\ Return(p, "Pop", PopResult(s.Data), StackMx(loc[p].stid), "W")
    /\ UNCHANGED <<now, nextID, server, batch, local, mw, file>>

SizeCall(p) == StackCall(p, "Size_rlock", NilElement)

SizeRLock(p) == Acquire(p, "Size_rlock", StackMx(loc[p].stid), "R", "Size_body")

\* A Size that does not count the bottom element.
SizeResultShort(d) == IF Len(d) = 0 THEN 0 ELSE Len(d) - 1

SizeResult(d) == Len(d)

SizeBody(p) ==
    /\ pc[p] = "Size_body"
    /\ LiveStack(p)
    /\ Return(p, "Size", Number(SizeResult(StackOf(p).Data)), StackMx(loc[p].stid), "R")
    /\ UNCHANGED <<Databases, now, nextID, server, batch, local, mw, file, hist>>

\* A Peek that reads the bottom of the Stack.
PeekResultFirst(d) == IF Len(d) = 0 THEN NilElement ELSE d[1]

PeekResult(d) == IF Len(d) = 0 THEN NilElement ELSE Top(d)

PeekCall(p) == StackCall(p, "Peek_rlock", NilElement)

PeekRLock(p) == Acquire(p, "Peek_rlock", StackMx(loc[p].stid), "R", "Peek_now")

\* time.Now() is evaluated before setReadTime stores it.
PeekNow(p) ==
    /\ pc[p] = "Peek_now"
    /\ loc' = [loc EXCEPT ![p].t = now]
    /\ pc' = [pc EXCEPT ![p] = "Peek_setReadTime"]
    /\ UNCHANGED <<Databases, now, nextID, server, batch, local, mw, file, held, ret, hist>>

PeekSetReadTime(p) ==
    /\ pc[p] = "Peek_setReadTime"
    /\ LiveStack(p)
    /\ StoreStack(p, setReadTime(StackOf(p), loc[p].t))
    /\ Return(p, "Peek", PeekResult(StackOf(p).Data), StackMx(loc[p].stid), "R")
    /\ UNCHANGED <<now, nextID, server, batch, local, mw, file, hist>>

FlushCall(p) == StackCall(p, "Flush_lock", NilElement)

FlushLock(p) == Acquire(p, "Flush_lock", StackMx(loc[p].stid), "W", "Flush_body")

\* A Flush that removes the top element only.
FlushDataTop(d) == IF Len(d) = 0 THEN d ELSE ButLast(d)

FlushData(d) == <<>>

FlushBody(p) ==
    /\ pc[p] = "Flush_body"
    /\ LiveStack(p)
    /\ StoreStack(p, [setUpdateTime(StackOf(p), now) EXCEPT !.Data = FlushData(@)])
    /\ hist' = Record(hist, Event("Flush", p, NilElement))
    /\ Return(p, "Flush", NilElement, StackMx(loc[p].stid), "W")
    /\ UNCHANGED <<now, nextID, server, batch, local, mw, file>>

\* PopDatabaseStackHandler: the status it answers with when Pop returned v.
PopDatabaseStackHandler(v) == IF v = NilElement THEN "204 No Content" ELSE "200 OK"

Tick ==
    /\ now < MaxClock
    /\ now' = now + 1
    /\ UNCHANGED <<Databases, nextID, server, batch, local, mw, file, pc, loc, held, ret, hist>>

-----------------------------------------------------------------------------
(* Database (database.go) and Repository (repository.go).                  *)

NewDatabase(id, n) == [Stacks |-> EmptyMap, Name |-> n, ID |-> id]

ErrNotFound == "not found"

ErrAlreadyExists == "already exists"

\* uuid.New(): an identifier never handed out before.
CanNewUUID == nextID < MaxID

\* New is called while an identifier is left for it and for every New
\* under way.
UUIDLeft == nextID + InFlight(NewSteps) < MaxID

\* A uuid.New() that hands out the nil identifier.
NewUUIDNil == Nil

\* A uuid.New() that hands out the identifier it handed out last.
NewUUIDAgain == IF nextID = 0 THEN 1 ELSE nextID

NewUUID == nextID + 1

\* A caller calls a method of the Repository with the string id.
RepositoryCall(p, op, id) ==
    /\ pc[p] = "idle"
    /\ op \in Recorded /\ Recording => Len(hist) + InFlight(Recorded) < MaxOps
    /\ loc' = [loc EXCEPT ![p] = [NoLoc EXCEPT !.id = id]]
    /\ pc' = [pc EXCEPT ![p] = op]
    /\ ret' = NoRet
    /\ UNCHANGED <<Databases, now, nextID, server, batch, local, mw, file, held, hist>>

\* A caller that holds a *Database calls one of its methods with the string id.
DatabaseCall(p, op, id) ==
    /\ pc[p] = "idle"
    /\ op \in Recorded /\ Recording => Len(hist) + InFlight(Recorded) < MaxOps
    /\ \E d \in DOMAIN Databases :
           loc' = [loc EXCEPT ![p] =
                      [NoLoc EXCEPT !.db = d, !.dbid = Databases[d].ID, !.id = id]]
    /\ pc' = [pc EXCEPT ![p] = op]
    /\ ret' = NoRet
    /\ UNCHANGED <<Databases, now, nextID, server, batch, local, mw, file, held, hist>>

\* A lookup that tries id as a name whether or not it parses.
LookupKeysByNameFirst(m, id) ==
    IF id \in DOMAIN m
    THEN {id}
    ELSE {k \in DOMAIN m : m[k].ID = UUIDParse(id)}

\* The entries the lookup loop of Repository.Database / Database.Stack can
\* return for id: the entry named id when id is no identifier, else any
\* entry whose ID is the parsed identifier (uuid.Nil after a failed parse).
LookupKeys(m, id) ==
    IF ~ParseOK(id) /\ id \in DOMAIN m
    THEN {id}
    ELSE {k \in DOMAIN m : m[k].ID = UUIDParse(id)}

\* The entries the loop of Repository.Drop / Database.Drop can stop at.
DropKeys(m, id) == {k \in DOMAIN m : UUIDString(m[k].ID) = id \/ m[k].Name = id}

\* A Drop that finds the entry and forgets to delete it.
DropEntryKept(m, k) == m

\* Go's delete(m, name(e.Name)).
DropEntry(m, k) == MapDelete(m, m[k].Name)

\* A New that never finds the name taken.
ExistsNever(m, n) == FALSE

\* _, ok := m[name(n)]
Exists(m, n) == n \in DOMAIN m

(* Repository.Database(id) *)

RepositoryDatabaseCall(p, ids) == \E id \in ids : RepositoryCall(p, "Repository.Database_rlock", id)

RepositoryDatabaseRLock(p) ==
    Acquire(p, "Repository.Database_rlock", RepoMx, "R", "Repository.Database_body")

RepositoryDatabaseBody(p) ==
    /\ pc[p] = "Repository.Database_body"
    /\ LET id == loc[p].id
           found == LookupKeys(Databases, id) IN
       IF found = {}
       THEN Finish(p, Ret(p, "Repository.Database", id, NilElement, Nil, NoString, ErrNotFound),
                   RepoMx, "R")
       ELSE \E k \in found :
                Finish(p, Ret(p, "Repository.Database", id, NilElement,
                              Databases[k].ID, Databases[k].Name, "nil"), RepoMx, "R")
    /\ UNCHANGED <<Databases, now, nextID, server, batch, local, mw, file, hist>>

(* Repository.New(n) *)

RepositoryNewCall(p, names) ==
    UUIDLeft /\ \E n \in names : RepositoryCall(p, "Repository.New_lock", n)

RepositoryNewLock(p) == Acquire(p, "Repository.New_lock", RepoMx, "W", "Repository.New_body")

\* if _, ok := r.Databases[name(n)]; ok { return nil, ErrAlreadyExists }
RepositoryNewBody(p) ==
    /\ pc[p] = "Repository.New_body"
    /\ LET n == loc[p].id IN
       IF Exists(Databases, n)
       THEN /\ Finish(p, Ret(p, "Repository.New", n, NilElement, Nil, NoString, ErrAlreadyExists),
                      RepoMx, "W")
            /\ hist' = Record(hist, Outcome(p, ret'))
       ELSE /\ pc' = [pc EXCEPT ![p] = "Repository.New_insert"]
            /\ UNCHANGED <<loc, held, ret, hist>>
    /\ UNCHANGED <<Databases, now, nextID, server, batch, local, mw, file>>

\* db := &Database{...}; r.Databases[name(n)] = db; return db, nil
RepositoryNewInsert(p) ==
    /\ pc[p] = "Repository.New_insert"
    /\ CanNewUUID
    /\ LET n == loc[p].id IN
       /\ Databases' = MapSet(Databases, n, NewDatabase(NewUUID, n))
       /\ nextID' = NewUUID
       /\ Finish(p, Ret(p, "Repository.New", n, NilElement, NewUUID, n, "nil"), RepoMx, "W")
    /\ hist' = Record(hist, Outcome(p, ret'))
    /\ UNCHANGED <<now, server, batch, local, mw, file>>

(* Repository.Drop(id) *)

RepositoryDropCall(p, ids) == \E id \in ids : RepositoryCall(p, "Repository.Drop_lock", id)

RepositoryDropLock(p) == Acquire(p, "Repository.Drop_lock", RepoMx, "W", "Repository.Drop_body")

RepositoryDropBody(p) ==
    /\ pc[p] = "Repository.Drop_body"
    /\ LET id == loc[p].id
           found == DropKeys(Databases, id) IN
       IF found = {}
       THEN /\ Finish(p, Ret(p, "Repository.Drop", id, NilElement, Nil, NoString, ErrNotFound),
                      RepoMx, "W")
            /\ UNCHANGED Databases
       ELSE \E k \in found :
                /\ Databases' = DropEntry(Databases, k)
                /\ Finish(p, Ret(p, "Repository.Drop", id, NilElement,
                                 Databases[k].ID, Databases[k].Name, "nil"), RepoMx, "W")
    /\ hist' = Record(hist, Outcome(p, ret'))
    /\ UNCHANGED <<now, nextID, server, batch, local, mw, file>>

(* Database.Stack(id) *)

DatabaseStackCall(p, ids) == \E id \in ids : DatabaseCall(p, "Database.Stack_rlock", id)

DatabaseStackRLock(p) ==
    Acquire(p, "Database.Stack_rlock", DbMx(loc[p].dbid), "R", "Database.Stack_body")

\* The identifier loop stores the Database into the Stack it returns; the
\* name path returns the Stack as it is.
DatabaseStackBody(p) ==
    /\ pc[p] = "Database.Stack_body"
    /\ LiveDatabase(p)
    /\ LET id == loc[p].id
           db == DatabaseOf(p)
           found == LookupKeys(db.Stacks, id) IN
       IF found = {}
       THEN /\ Finish(p, Ret(p, "Database.Stack", id, NilElement, Nil, NoString, ErrNotFound),
                      DbMx(db.ID), "R")
            /\ UNCHANGED Databases
       ELSE \E k \in found :
                /\ Databases' =
                       IF ~ParseOK(id) /\ id \in DOMAIN db.Stacks
                       THEN Databases
                       ELSE [Databases EXCEPT ![loc[p].db].Stacks[k].database = db.ID]
                /\ Finish(p, Ret(p, "Database.Stack", id, NilElement,
                                 db.Stacks[k].ID, db.Stacks[k].Name, "nil"), DbMx(db.ID), "R")
    /\ UNCHANGED <<now, nextID, server, batch, local, mw, file, hist>>

(* Database.New(n) *)

DatabaseNewCall(p, names) ==
    UUIDLeft /\ \E n \in names : DatabaseCall(p, "Database.New_lock", n)

DatabaseNewLock(p) == Acquire(p, "Database.New_lock", DbMx(loc[p].dbid), "W", "Database.New_body")

\* if _, ok := db.Stacks[name(n)]; ok { return nil, ErrAlreadyExists }
DatabaseNewBody(p) ==
    /\ pc[p] = "Database.New_body"
    /\ LiveDatabase(p)
    /\ LET n == loc[p].id
           db == DatabaseOf(p) IN
       IF Exists(db.Stacks, n)
       THEN /\ Finish(p, Ret(p, "Database.New", n, NilElement, Nil, NoString, ErrAlreadyExists),
                      DbMx(db.ID), "W")
            /\ hist' = Record(hist, Outcome(p, ret'))
       ELSE /\ pc' = [pc EXCEPT ![p] = "Database.New_insert"]
            /\ UNCHANGED <<loc, held, ret, hist>>
    /\ UNCHANGED <<Databases, now, nextID, server, batch, local, mw, file>>

\* t := time.Now(); stack := &Stack{...}; db.Stacks[name(n)] = stack
DatabaseNewInsert(p) ==
    /\ pc[p] = "Database.New_insert"
    /\ LiveDatabase(p)
    /\ CanNewUUID
    /\ LET n == loc[p].id
           db == DatabaseOf(p) IN
       /\ Databases' = [Databases EXCEPT ![loc[p].db].Stacks =
                           MapSet(@, n, NewStack(NewUUID, n, db.ID, now))]
       /\ nextID' = NewUUID
       /\ Finish(p, Ret(p, "Database.New", n, NilElement, NewUUID, n, "nil"), DbMx(db.ID), "W")
    /\ hist' = Record(hist, Outcome(p, ret'))
    /\ UNCHANGED <<now, server, batch, local, mw, file>>

(* Database.Drop(id) *)

DatabaseDropCall(p, ids) == \E id \in ids : DatabaseCall(p, "Database.Drop_lock", id)

DatabaseDropLock(p) == Acquire(p, "Database.Drop_lock", DbMx(loc[p].dbid), "W", "Database.Drop_body")

DatabaseDropBody(p) ==
    /\ pc[p] = "Database.Drop_body"
    /\ LiveDatabase(p)
    /\ LET id == loc[p].id
           db == DatabaseOf(p)
           found == DropKeys(db.Stacks, id) IN
       IF found = {}
       THEN /\ Finish(p, Ret(p, "Database.Drop", id, NilElement, Nil, NoString, ErrNotFound),
                      DbMx(db.ID), "W")
            /\ UNCHANGED Databases
       ELSE \E k \in found :
                /\ Databases' = [Databases EXCEPT ![loc[p].db].Stacks = DropEntry(@, k)]
                /\ Finish(p, Ret(p, "Database.Drop", id, NilElement,
                                 db.Stacks[k].ID, db.Stacks[k].Name, "nil"), DbMx(db.ID), "W")
    /\ hist' = Record(hist, Outcome(p, ret'))
    /\ UNCHANGED <<now, nextID, server, batch, local, mw, file>>

(* Repository.SortDatabases() and Database.SortStacks().  Go compares       *)
(* strings byte by byte: the texts of two identifiers compare as the       *)
(* identifiers do, the upper-case text of an identifier comes before its   *)
(* canonical text (A-F before a-f), and the plain names, which begin with  *)
(* a letter after f, come after the text of every identifier and compare   *)
(* by their number.                                                        *)

StringLess(a, b) ==
    IF ParseOK(a) /\ ParseOK(b)
    THEN a.n < b.n \/ (a.n = b.n /\ a.form = "upper" /\ b.form = "canon")
    ELSE IF ParseOK(a) # ParseOK(b) THEN ParseOK(a) ELSE a.n < b.n

\* A comparison that orders by name descending.
Greater(x, y) == StringLess(y.Name, x.Name)

\* func(i, j int) bool { return dbs[i].Name < dbs[j].Name }
Less(x, y) == StringLess(x.Name, y.Name)

RECURSIVE Insert(_, _)
Insert(x, q) ==
    IF q = <<>> THEN <<x>>
    ELSE IF Less(x, Head(q)) THEN <<x>> \o q ELSE <<Head(q)>> \o Insert(x, Tail(q))

\* sort.Slice(q, Less)
RECURSIVE SortSlice(_)
SortSlice(q) == IF q = <<>> THEN <<>> ELSE Insert(Head(q), SortSlice(Tail(q)))

\* The orders in which a range loop can visit the keys of the map m.
RangeOrders(m) ==
    {q \in [1..Cardinality(DOMAIN m) -> DOMAIN m] : \A i, j \in DOMAIN q : i # j => q[i] # q[j]}

\* The slice the loop appends to, visiting the keys in the order q; an
\* entry is its identifier and name.
Appended(m, q) == [i \in DOMAIN q |-> [ID |-> m[q[i]].ID, Name |-> m[q[i]].Name]]

RepositorySortDatabasesCall(p) == RepositoryCall(p, "Repository.SortDatabases_rlock", NoString)

RepositorySortDatabasesRLock(p) ==
    Acquire(p, "Repository.SortDatabases_rlock", RepoMx, "R", "Repository.SortDatabases_body")

RepositorySortDatabasesBody(p) ==
    /\ pc[p] = "Repository.SortDatabases_body"
    /\ \E q \in RangeOrders(Databases) :
           Finish(p, [Ret(p, "Repository.SortDatabases", NoString, NilElement, Nil, NoString, "nil")
                         EXCEPT !.list = SortSlice(Appended(Databases, q))], RepoMx, "R")
    /\ UNCHANGED <<Databases, now, nextID, server, batch, local, mw, file, hist>>

DatabaseSortStacksCall(p) == DatabaseCall(p, "Database.SortStacks_rlock", NoString)

DatabaseSortStacksRLock(p) ==
    Acquire(p, "Database.SortStacks_rlock", DbMx(loc[p].dbid), "R", "Database.SortStacks_body")

DatabaseSortStacksBody(p) ==
    /\ pc[p] = "Database.SortStacks_body"
    /\ LiveDatabase(p)
    /\ \E q \in RangeOrders(DatabaseOf(p).Stacks) :
           Finish(p, [Ret(p, "Database.SortStacks", NoString, NilElement, Nil, NoString, "nil")
                         EXCEPT !.list = SortSlice(Appended(DatabaseOf(p).Stacks, q))],
                  DbMx(loc[p].dbid), "R")
    /\ UNCHANGED <<Databases, now, nextID, server, batch, local, mw, file, hist>>

-----------------------------------------------------------------------------
(* Persistence (repository.go: Persist, Load) through encoding/gob.  The   *)
(* file is absent, or partial (created or truncated by os.Create, holding  *)
(* at most gob type descriptors, no value), or valid (holding one encoded  *)
(* Repository, content), or corrupt (holding an encoded Repository with    *)
(* bytes damaged, of which the Databases content decode before the         *)
(* decoder meets the damage).                                              *)

NoFile == [state |-> "absent", content |-> EmptyMap]

PartialFile == [state |-> "partial", content |-> EmptyMap]

ValidFile(c) == [state |-> "valid", content |-> c]

CorruptFile(c) == [state |-> "corrupt", content |-> c]

ErrBadData == "gob: bad data"

ErrCreate == "open: permission denied"

ErrWrite == "write: no space left on device"

ErrNotRegistered == "gob: type not registered for interface"

ErrEOF == "EOF"

\* The concrete types gob can send inside an interface value without a
\* gob.Register call: the nil interface and the basic types.
GobRegistered(e) == e.type \in {"nil", "float64", "string", "bool"}

\* gob sends the exported fields only: a Stack goes without its database.
GobStack(st) ==
    [CreatedAt |-> st.CreatedAt, UpdatedAt |-> st.UpdatedAt, ReadAt |-> st.ReadAt,
     Name |-> st.Name, Data |-> st.Data, ID |-> st.ID]

GobDatabase(d) ==
    [Stacks |-> [k \in DOMAIN d.Stacks |-> GobStack(d.Stacks[k])], Name |-> d.Name, ID |-> d.ID]

GobRepository(m) == [k \in DOMAIN m |-> GobDatabase(m[k])]

GobEncodable(d) ==
    \A k \in DOMAIN d.Stacks : \A i \in 1..Len(d.Stacks[k].Data) :
        GobRegistered(d.Stacks[k].Data[i])

\* Decoding allocates a new Stack, a new Database: the fields gob did not
\* send have their zero value.
DecodeStack(g) ==
    [CreatedAt |-> g.CreatedAt, UpdatedAt |-> g.UpdatedAt, ReadAt |-> g.ReadAt,
     database |-> Nil, Name |-> g.Name, Data |-> g.Data, ID |-> g.ID]

DecodeDatabase(g) ==
    [Stacks |-> [k \in DOMAIN g.Stacks |-> DecodeStack(g.Stacks[k])], Name |-> g.Name, ID |-> g.ID]

\* Decoding into the map m that is not nil: gob stores each key of the
\* file into m (SetMapIndex) and leaves the other keys of m alone.
GobDecode(m, c) ==
    [k \in DOMAIN m \cup DOMAIN c |-> IF k \in DOMAIN c THEN DecodeDatabase(c[k]) ELSE m[k]]

\* The return of a method that holds no lock.
Done(p, r) ==
    /\ pc' = [pc EXCEPT ![p] = "idle"]
    /\ loc' = [loc EXCEPT ![p] = NoLoc]
    /\ ret' = r
    /\ UNCHANGED held

(* Repository.Persist(filename) *)

PersistCall(p) == RepositoryCall(p, "Repository.Persist_rlock", NoString)

PersistRLock(p) ==
    Acquire(p, "Repository.Persist_rlock", RepoMx, "R", "Repository.Persist_create")

\* An os.Create that opens the file and leaves what it holds.
CreateKeeps(f) == f

\* os.Create: the file exists and is empty.
Create(f) == PartialFile

PersistCreate(p) ==
    /\ pc[p] = "Repository.Persist_create"
    /\ file' = Create(file)
    /\ loc' = [loc EXCEPT ![p].buf = EmptyMap]
    /\ pc' = [pc EXCEPT ![p] = "Repository.Persist_encode"]
    /\ UNCHANGED <<Databases, now, nextID, server, batch, local, mw, held, ret, hist>>

\* os.Create fails: Persist returns the error, the file is not touched.
PersistCreateFails(p) ==
    /\ pc[p] = "Repository.Persist_create"
    /\ Finish(p, Ret(p, "Repository.Persist", NoString, NilElement, Nil, NoString, ErrCreate),
              RepoMx, "R")
    /\ UNCHANGED <<Databases, now, nextID, server, batch, local, mw, file, hist>>

\* Encode walks r.Databases, in any order, and encodes one Database with
\* its Stacks into the Encoder's buffer, taking no lock of the Database or
\* of its Stacks; a value it cannot encode ends Encode with an error, and
\* the buffer is never written.
PersistEncode(p) ==
    /\ pc[p] = "Repository.Persist_encode"
    /\ \E k \in DOMAIN Databases \ DOMAIN loc[p].buf :
           IF GobEncodable(Databases[k])
           THEN /\ loc' = [loc EXCEPT ![p].buf = MapSet(@, k, GobDatabase(Databases[k]))]
                /\ UNCHANGED <<pc, held, ret>>
           ELSE Finish(p, Ret(p, "Repository.Persist", NoString, NilElement, Nil, NoString,
                              ErrNotRegistered), RepoMx, "R")
    /\ UNCHANGED <<Databases, now, nextID, server, batch, local, mw, file, hist>>

\* Every Database is encoded: Encode writes the buffer, then the deferred
\* Close and RUnlock.
PersistWrite(p) ==
    /\ pc[p] = "Repository.Persist_encode"
    /\ DOMAIN Databases \subseteq DOMAIN loc[p].buf
    /\ file' = ValidFile(loc[p].buf)
    /\ Finish(p, Ret(p, "Repository.Persist", NoString, NilElement, Nil, NoString, "nil"),
              RepoMx, "R")
    /\ UNCHANGED <<Databases, now, nextID, server, batch, local, mw, hist>>

\* Every Database is encoded and the write of the buffer fails: the file
\* holds no complete value.
PersistWriteFails(p) ==
    /\ pc[p] = "Repository.Persist_encode"
    /\ DOMAIN Databases \subseteq DOMAIN loc[p].buf
    /\ file' = PartialFile
    /\ Finish(p, Ret(p, "Repository.Persist", NoString, NilElement, Nil, NoString, ErrWrite),
              RepoMx, "R")
    /\ UNCHANGED <<Databases, now, nextID, server, batch, local, mw, hist>>

\* Bytes of a valid file are damaged while no call is under way: any of
\* its Databases may lie before the damage.
FileCorrupted ==
    /\ file.state = "valid"
    /\ \A p \in Procs : pc[p] = "idle"
    /\ \E K \in SUBSET DOMAIN file.content :
           file' = CorruptFile([k \in K |-> file.content[k]])
    /\ UNCHANGED <<Databases, now, nextID, server, batch, local, mw, pc, loc, held, ret, hist>>

(* Repository.Load(filename): no lock is taken. *)

\* The error Decode ends with.
DecodeErr(f) ==
    CASE f.state = "valid" -> "nil"
      [] f.state = "corrupt" -> ErrBadData
      [] OTHER -> ErrEOF

LoadCall(p) == RepositoryCall(p, "Repository.Load_open", NoString)

\* An os.IsNotExist that recognises no error.
IsNotExistNever(f) == FALSE

\* os.IsNotExist(err) of the error os.Open returns.
IsNotExist(f) == f.state = "absent"

LoadOpen(p) ==
    /\ pc[p] = "Repository.Load_open"
    /\ IF IsNotExist(file)
       THEN Done(p, Ret(p, "Repository.Load", NoString, NilElement, Nil, NoString, "nil"))
       ELSE /\ pc' = [pc EXCEPT ![p] = "Repository.Load_decode"]
            /\ UNCHANGED <<loc, held, ret>>
    /\ UNCHANGED <<Databases, now, nextID, server, batch, local, mw, file, hist>>

LoadDecode(p) ==
    /\ pc[p] = "Repository.Load_decode"
    /\ Databases' = GobDecode(Databases, file.content)
    /\ Done(p, Ret(p, "Repository.Load", NoString, NilElement, Nil, NoString, DecodeErr(file)))
    /\ UNCHANGED <<now, nextID, server, batch, local, mw, file, hist>>

-----------------------------------------------------------------------------
(* Service (handlers: Start, serve, Shutdown, SaveToFile, LoadToFile).     *)
(* server.state is where the Service stands: new, listening (net.Listen    *)
(* returned), loading (inside LoadToFile), serving (inside Serve), failed  *)
(* (Start returned an error), closing (inside server.Shutdown), closed     *)
(* (server.Shutdown returned nil), timedout (server.Shutdown returned the  *)
(* error of its deadline and Shutdown returned it), saving (inside         *)
(* SaveToFile), saved, savefailed (Shutdown returned SaveToFile's error),  *)
(* stopped (Shutdown returned nil without persistence).  Caller 1 is the   *)
(* goroutine of Start and then of Shutdown, the other callers are the      *)
(* goroutines of the requests; a request is under way while its caller is  *)
(* not idle.                                                               *)

Service(st, persist) == [state |-> st, persistDB |-> persist, shutdown |-> "none"]

Handlers == Procs \ {1}

\* A Service that hands requests to the handlers as soon as it listens.
ServingOnceListening == server.state \in {"listening", "loading", "serving"}

\* server.Serve(l) is running and Shutdown has not been called.
Serving == server.state = "serving"

\* net.Listen("tcp", port), which can fail.
ServiceListen ==
    /\ server.state = "new"
    /\ \E ok \in BOOLEAN :
           server' = [server EXCEPT !.state = IF ok THEN "listening" ELSE "failed"]
    /\ UNCHANGED <<Databases, now, nextID, batch, local, mw, file, pc, loc, held, ret, hist>>

\* LoadToFile: returns nil when persistDB is not set, and Start goes on to
\* serve.
ServiceLoadToFile ==
    /\ server.state = "listening"
    /\ server' = [server EXCEPT !.state = IF server.persistDB THEN "loading" ELSE "serving"]
    /\ UNCHANGED <<Databases, now, nextID, batch, local, mw, file, pc, loc, held, ret, hist>>

\* s.Repository.Load(s.savefile)
ServiceLoad == server.state = "loading" /\ ret.op # "Repository.Load" /\ LoadCall(1)

\* Load has returned: Start returns its error, or serves.
ServiceServe ==
    /\ server.state = "loading"
    /\ pc[1] = "idle" /\ ret.op = "Repository.Load"
    /\ server' = [server EXCEPT !.state = IF ret.err = "nil" THEN "serving" ELSE "failed"]
    /\ UNCHANGED <<Databases, now, nextID, batch, local, mw, file, pc, loc, held, ret, hist>>

\* Shutdown calls server.Shutdown(ctx): no new request is accepted.
ServiceShutdown ==
    /\ server.state = "serving"
    /\ server' = [server EXCEPT !.state = "closing"]
    /\ UNCHANGED <<Databases, now, nextID, batch, local, mw, file, pc, loc, held, ret, hist>>

\* server.Shutdown returns nil: no request is under way.
ServerShutdownIdle ==
    /\ server.state = "closing"
    /\ \A p \in Handlers : pc[p] = "idle"
    /\ server' = [server EXCEPT !.state = "closed"]
    /\ UNCHANGED <<Databases, now, nextID, batch, local, mw, file, pc, loc, held, ret, hist>>

\* The deadline of ctx passes while a request is under way: server.Shutdown
\* returns the error and Shutdown returns it.
ServerShutdownDeadline ==
    /\ server.state = "closing"
    /\ \E p \in Handlers : pc[p] # "idle"
    /\ server' = [server EXCEPT !.state = "timedout"]
    /\ UNCHANGED <<Databases, now, nextID, batch, local, mw, file, pc, loc, held, ret, hist>>

\* SaveToFile: returns nil when persistDB is not set.
ServiceSaveToFile ==
    /\ server.state = "closed"
    /\ server' = [server EXCEPT !.state = IF server.persistDB THEN "saving" ELSE "stopped"]
    /\ UNCHANGED <<Databases, now, nextID, batch, local, mw, file, pc, loc, held, ret, hist>>

\* s.Repository.Persist(s.savefile)
ServiceSave == server.state = "saving" /\ ret.op # "Repository.Persist" /\ PersistCall(1)

\* Persist has returned, and Shutdown returns what it returned.
ServiceShutdownReturn ==
    /\ server.state = "saving"
    /\ pc[1] = "idle" /\ ret.op = "Repository.Persist"
    /\ server' = [server EXCEPT !.state = IF ret.err = "nil" THEN "saved" ELSE "savefailed"]
    /\ UNCHANGED <<Databases, now, nextID, batch, local, mw, file, pc, loc, held, ret, hist>>

(* ServerCmd.Run: Start runs in a goroutine (caller 1) and Shutdown is     *)
(* called by the goroutine of Run (caller 2) when the stop signal comes,   *)
(* wherever Start stands.  server.shutdown is where that Shutdown stands:  *)
(* none, closing, closed, saving, saved, savefailed, stopped.  No request  *)
(* is under way, so server.Shutdown returns nil at once.  ret holds one    *)
(* return: a step that writes ret waits until the other goroutine has read *)
(* the return it waits for, a read that changes nothing else.              *)

\* Start is about to read what Load returned.
StartReads == server.state = "loading" /\ pc[1] = "idle" /\ ret.op = "Repository.Load"

\* Shutdown is about to read what Persist returned.
ShutdownReads ==
    server.shutdown = "saving" /\ pc[2] = "idle" /\ ret.op = "Repository.Persist"

RunStartLoad == ~ShutdownReads /\ ServiceLoad

RunStartLoadOpen == ~ShutdownReads /\ LoadOpen(1)

RunStartLoadDecode == ~ShutdownReads /\ LoadDecode(1)

\* <-ctx.Stop, then Shutdown calls s.server.Shutdown(ctx).
RunShutdown ==
    /\ server.shutdown = "none"
    /\ server' = [server EXCEPT !.shutdown = "closing"]
    /\ UNCHANGED <<Databases, now, nextID, batch, local, mw, file, pc, loc, held, ret, hist>>

\* s.server.Shutdown(ctx) returns nil.
RunServerShutdown ==
    /\ server.shutdown = "closing"
    /\ server' = [server EXCEPT !.shutdown = "closed"]
    /\ UNCHANGED <<Databases, now, nextID, batch, local, mw, file, pc, loc, held, ret, hist>>

\* SaveToFile: returns nil when persistDB is not set.
RunSaveToFile ==
    /\ server.shutdown = "closed"
    /\ server' = [server EXCEPT !.shutdown = IF server.persistDB THEN "saving" ELSE "stopped"]
    /\ UNCHANGED <<Databases, now, nextID, batch, local, mw, file, pc, loc, held, ret, hist>>

\* s.Repository.Persist(s.savefile)
RunSave ==
    /\ server.shutdown = "saving"
    /\ ~StartReads
    /\ ret.op # "Repository.Persist"
    /\ PersistCall(2)

RunSaveCreateFails == ~StartReads /\ PersistCreateFails(2)

RunSaveWrite == ~StartReads /\ PersistWrite(2)

\* Persist has returned, and Shutdown returns what it returned.
RunShutdownReturn ==
    /\ ShutdownReads
    /\ server' = [server EXCEPT !.shutdown = IF ret.err = "nil" THEN "saved" ELSE "savefailed"]
    /\ UNCHANGED <<Databases, now, nextID, batch, local, mw, file, pc, loc, held, ret, hist>>

\* A request arrives and its handler calls the Repository, a Database or a
\* Stack.
HandlerCall(p) ==
    /\ Serving
    /\ \/ RepositoryNewCall(p, {Plain(1)})
       \/ DatabaseNewCall(p, {Plain(1)})
       \/ PushCall(p, {Number(1)})
       \/ PopCall(p)

\* A handler goes on with its call.
HandlerStep(p) ==
    \/ RepositoryNewLock(p) \/ RepositoryNewBody(p) \/ RepositoryNewInsert(p)
    \/ DatabaseNewLock(p) \/ DatabaseNewBody(p) \/ DatabaseNewInsert(p)
    \/ PushLock(p) \/ PushAppend(p) \/ PushUpdatedAt(p)
    \/ PopLock(p) \/ PopBody(p)

-----------------------------------------------------------------------------
(* BatchOperationsHandler (handlers/batch.go).  batch.ops is               *)
(* input.Body.Operations, batch.i the index the range loop stands at (from *)
(* 1), batch.results is output.Body.Results.  A JSON element that is       *)
(* absent or null is the nil element.                                      *)

BatchOperation(type, database, stack, element) ==
    [Type |-> type, Database |-> database, Stack |-> stack, Element |-> element]

\* The zero BatchOperationResult.
ZeroResult == [Status |-> 0, Result |-> NilElement, Error |-> "nil"]

NoBatch == [ops |-> <<>>, i |-> 0, results |-> <<>>]

StatusOK == 200

StatusNoContent == 204

StatusBadRequest == 400

StatusNotFound == 404

BatchError(status, error) == [ZeroResult EXCEPT !.Status = status, !.Error = error]

BatchOK(status, result) == [ZeroResult EXCEPT !.Status = status, !.Result = result]

\* The map the flush case answers with: peek and size of the Stack.
FlushResult(d) == [type |-> "map[string]any", v |-> SizeResult(d)]

\* A loop that an error result ends.
BatchBreak(ops, i, r) == IF r.Status >= StatusBadRequest THEN Len(ops) + 1 ELSE i + 1

\* continue, or the end of the loop body: the range loop goes to the next
\* operation.
BatchContinue(ops, i, r) == i + 1

\* A switch that pushes the element before it looks at it.
BatchSwitchPushFirst(s, op, t) ==
    CASE op.Type = "push" -> [setUpdateTime(s, t) EXCEPT !.Data = append(@, op.Element)]
      [] op.Type = "pop" ->
             IF Len(s.Data) = 0
             THEN setReadTime(s, t)
             ELSE [setUpdateTime(s, t) EXCEPT !.Data = PopData(s.Data)]
      [] op.Type = "peek" -> setReadTime(s, t)
      [] op.Type = "flush" -> [setUpdateTime(s, t) EXCEPT !.Data = FlushData(@)]
      [] OTHER -> s

\* The Stack after the switch on op.Type, entered at time t.
BatchSwitch(s, op, t) ==
    CASE op.Type = "push" ->
             IF op.Element = NilElement
             THEN s
             ELSE [setUpdateTime(s, t) EXCEPT !.Data = append(@, op.Element)]
      [] op.Type = "pop" ->
             IF Len(s.Data) = 0
             THEN setReadTime(s, t)
             ELSE [setUpdateTime(s, t) EXCEPT !.Data = PopData(s.Data)]
      [] op.Type = "peek" -> setReadTime(s, t)
      [] op.Type = "flush" -> [setUpdateTime(s, t) EXCEPT !.Data = FlushData(@)]
      [] OTHER -> s

\* The result of the switch on op.Type for the Stack s it was entered with.
BatchResult(s, op) ==
    CASE op.Type = "push" ->
             IF op.Element = NilElement
             THEN BatchError(StatusBadRequest, "Element is required for push operation")
             ELSE BatchOK(StatusOK, op.Element)
      [] op.Type = "pop" ->
             IF PopResult(s.Data) = NilElement
             THEN BatchOK(StatusNoContent, NilElement)
             ELSE BatchOK(StatusOK, PopResult(s.Data))
      [] op.Type = "peek" -> BatchOK(StatusOK, PeekResult(s.Data))
      [] op.Type = "flush" -> BatchOK(StatusOK, FlushResult(FlushData(s.Data)))
      [] OTHER -> BatchError(StatusBadRequest, "Unknown operation type")

\* The elements a batch would push.
Pushes(ops) ==
    Cardinality({k \in 1..Len(ops) : ops[k].Type = "push" /\ ops[k].Element # NilElement})

\* A request arrives with one of the inputs; output.Body.Results is made
\* with one zero result for each operation.
BatchOperationsHandlerCall(p, inputs) ==
    /\ pc[p] = "idle"
    /\ \E ops \in inputs :
           /\ \A d \in DOMAIN Databases : \A s \in DOMAIN Databases[d].Stacks :
                  Len(Databases[d].Stacks[s].Data) + Pushes(ops) <= MaxLen
           /\ batch' = [ops |-> ops, i |-> 1, results |-> [k \in 1..Len(ops) |-> ZeroResult]]
    /\ pc' = [pc EXCEPT ![p] = "BatchOperationsHandler_range"]
    /\ ret' = NoRet
    /\ UNCHANGED <<Databases, now, nextID, server, local, mw, file, loc, held, hist>>

\* One turn of the range loop: the operation at index batch.i.
BatchOperationsHandlerRange(p) ==
    /\ pc[p] = "BatchOperationsHandler_range"
    /\ batch.i <= Len(batch.ops)
    /\ LET op == batch.ops[batch.i]
           Store(r) == batch' = [batch EXCEPT !.results[batch.i] = r,
                                              !.i = BatchContinue(batch.ops, batch.i, r)]
           dbs == LookupKeys(Databases, op.Database) IN
       IF dbs = {}
       THEN /\ Store(BatchError(StatusNotFound, "Database not found"))
            /\ UNCHANGED Databases
       ELSE \E d \in dbs :
                LET db == Databases[d]
                    sts == LookupKeys(db.Stacks, op.Stack) IN
                IF sts = {}
                THEN /\ Store(BatchError(StatusNotFound, "Stack not found"))
                     /\ UNCHANGED Databases
                ELSE \E k \in sts :
                         LET stack == IF ~ParseOK(op.Stack) /\ op.Stack \in DOMAIN db.Stacks
                                      THEN db.Stacks[k]
                                      ELSE [db.Stacks[k] EXCEPT !.database = db.ID] IN
                         /\ Databases' = [Databases EXCEPT
                                             ![d].Stacks[k] = BatchSwitch(stack, op, now)]
                         /\ Store(BatchResult(stack, op))
    /\ UNCHANGED <<now, nextID, server, local, mw, file, pc, loc, held, ret, hist>>

\* The loop has ended: return output, nil.  The output goes to the client
\* and the handler keeps nothing of the request.
BatchOperationsHandlerReturn(p) ==
    /\ pc[p] = "BatchOperationsHandler_range"
    /\ batch.i > Len(batch.ops)
    /\ batch' = NoBatch
    /\ Done(p, Ret(p, "BatchOperationsHandler", NoString, NilElement, Nil, NoString, "nil"))
    /\ UNCHANGED <<Databases, now, nextID, server, local, mw, file, hist>>

-----------------------------------------------------------------------------
(* Handlers that make several calls (handlers/stacks.go).  local[p] holds  *)
(* what the handler keeps between its calls: the strings of the request    *)
(* (db, id), the Database it looked up (key, dbid), the Stack it resolved  *)
(* (stack, with its back-reference database), the length n it asked for,   *)
(* the sorted slice list, and the slice out it fills.  Each call takes its *)
(* lock, reads or writes and unlocks in one step, when the lock is free.   *)

NoLocal ==
    [db |-> NoString, id |-> NoString, key |-> NoString, dbid |-> Nil, stack |-> Nil,
     database |-> Nil, n |-> 0, list |-> <<>>, out |-> <<>>]

Err404Database == "404 database not found"

Err404Stack == "404 stack not found"

PanicIndex == "panic: index out of range"

PanicNil == "panic: nil pointer dereference"

\* The zero value of an entry of the slice make([]any, n) returns.
ZeroEntry == [ID |-> Nil, Name |-> NoString]

HandlerCalls(p, to, db, id) ==
    /\ pc[p] = "idle"
    /\ pc' = [pc EXCEPT ![p] = to]
    /\ local' = [local EXCEPT ![p] = [NoLocal EXCEPT !.db = db, !.id = id]]
    /\ ret' = NoRet
    /\ UNCHANGED <<Databases, now, nextID, server, batch, mw, file, loc, held, hist>>

HandlerReturns(p, op, ent, name, err, list) ==
    /\ pc' = [pc EXCEPT ![p] = "idle"]
    /\ local' = [local EXCEPT ![p] = NoLocal]
    /\ ret' = [Ret(p, op, local[p].id, NilElement, ent, name, err) EXCEPT !.list = list]

\* db, err := s.Repository.Database(id): the handler goes on at pc next
\* with the Database, or returns 404.
HandlerDatabase(p, from, op, next) ==
    /\ pc[p] = from
    /\ CanRLock(RepoMx)
    /\ LET found == LookupKeys(Databases, local[p].db) IN
       IF found = {}
       THEN HandlerReturns(p, op, Nil, NoString, Err404Database, <<>>)
       ELSE \E d \in found :
                /\ local' = [local EXCEPT ![p].key = d, ![p].dbid = Databases[d].ID]
                /\ pc' = [pc EXCEPT ![p] = next]
                /\ UNCHANGED ret
    /\ UNCHANGED <<Databases, now, nextID, server, batch, mw, file, loc, held, hist>>

\* The Database the handler holds is the one the Repository leads to.
HandlerDatabaseLive(p) ==
    /\ local[p].key \in DOMAIN Databases
    /\ Databases[local[p].key].ID = local[p].dbid

(* ListDatabaseStacksHandler, without the kv parameter *)

ListDatabaseStacksHandlerCall(p, dbs) ==
    \E db \in dbs : HandlerCalls(p, "ListDatabaseStacksHandler_Database", db, NoString)

ListDatabaseStacksHandlerDatabase(p) ==
    HandlerDatabase(p, "ListDatabaseStacksHandler_Database", "ListDatabaseStacksHandler",
                    "ListDatabaseStacksHandler_Len")

\* stacks := make([]any, db.Len())
ListDatabaseStacksHandlerLen(p) ==
    /\ pc[p] = "ListDatabaseStacksHandler_Len"
    /\ HandlerDatabaseLive(p)
    /\ CanRLock(DbMx(local[p].dbid))
    /\ LET n == Cardinality(DOMAIN Databases[local[p].key].Stacks) IN
       local' = [local EXCEPT ![p].n = n, ![p].out = [i \in 1..n |-> ZeroEntry]]
    /\ pc' = [pc EXCEPT ![p] = "ListDatabaseStacksHandler_SortStacks"]
    /\ UNCHANGED <<Databases, now, nextID, server, batch, mw, file, loc, held, ret, hist>>

\* db.SortStacks(), the slice the range loop is over.
ListDatabaseStacksHandlerSortStacks(p) ==
    /\ pc[p] = "ListDatabaseStacksHandler_SortStacks"
    /\ HandlerDatabaseLive(p)
    /\ CanRLock(DbMx(local[p].dbid))
    /\ \E q \in RangeOrders(Databases[local[p].key].Stacks) :
           local' = [local EXCEPT
                        ![p].list = SortSlice(Appended(Databases[local[p].key].Stacks, q))]
    /\ pc' = [pc EXCEPT ![p] = "ListDatabaseStacksHandler_range"]
    /\ UNCHANGED <<Databases, now, nextID, server, batch, mw, file, loc, held, ret, hist>>

\* The Stacks of the Database after stack.Peek() on every Stack of the
\* slice that the Database still holds.
Peeked(stacks, list, t) ==
    [k \in DOMAIN stacks |->
        IF \E i \in DOMAIN list : list[i].ID = stacks[k].ID
        THEN setReadTime(stacks[k], t)
        ELSE stacks[k]]

\* for i, stack := range ...: stacks[i] = Stack{...}; an index past the
\* length of stacks panics.
ListDatabaseStacksHandlerRange(p) ==
    /\ pc[p] = "ListDatabaseStacksHandler_range"
    /\ HandlerDatabaseLive(p)
    /\ \A k \in DOMAIN Databases[local[p].key].Stacks :
           CanRLock(StackMx(Databases[local[p].key].Stacks[k].ID))
    /\ LET list == local[p].list
           n == local[p].n
           out == [i \in 1..n |-> IF i <= Len(list) THEN list[i] ELSE local[p].out[i]] IN
       /\ Databases' = [Databases EXCEPT ![local[p].key].Stacks = Peeked(@, list, now)]
       /\ IF Len(list) > n
          THEN HandlerReturns(p, "ListDatabaseStacksHandler", Nil, NoString, PanicIndex, out)
          ELSE HandlerReturns(p, "ListDatabaseStacksHandler", Nil, NoString, "nil", out)
    /\ UNCHANGED <<now, nextID, server, batch, mw, file, loc, held, hist>>

(* DeleteDatabaseStackHandler *)

DeleteDatabaseStackHandlerCall(p, dbs, ids) ==
    \E db \in dbs : \E id \in ids :
        HandlerCalls(p, "DeleteDatabaseStackHandler_Database", db, id)

\* Service.stack: s.Repository.Database(dbID)
DeleteDatabaseStackHandlerDatabase(p) ==
    HandlerDatabase(p, "DeleteDatabaseStackHandler_Database", "DeleteDatabaseStackHandler",
                    "DeleteDatabaseStackHandler_Stack")

\* Service.stack: db.Stack(sID); the identifier loop stores the Database
\* into the Stack it returns.
DeleteDatabaseStackHandlerStack(p) ==
    /\ pc[p] = "DeleteDatabaseStackHandler_Stack"
    /\ HandlerDatabaseLive(p)
    /\ CanRLock(DbMx(local[p].dbid))
    /\ LET id == local[p].id
           db == Databases[local[p].key]
           found == LookupKeys(db.Stacks, id) IN
       IF found = {}
       THEN /\ HandlerReturns(p, "DeleteDatabaseStackHandler", Nil, NoString, Err404Stack, <<>>)
            /\ UNCHANGED Databases
       ELSE \E k \in found :
                LET stack == IF ~ParseOK(id) /\ id \in DOMAIN db.Stacks
                             THEN db.Stacks[k]
                             ELSE [db.Stacks[k] EXCEPT !.database = db.ID] IN
                /\ Databases' = [Databases EXCEPT ![local[p].key].Stacks[k] = stack]
                /\ local' = [local EXCEPT ![p].stack = stack.ID,
                                          ![p].database = StackDatabase(stack)]
                /\ pc' = [pc EXCEPT ![p] = "DeleteDatabaseStackHandler_Drop"]
                /\ UNCHANGED ret
    /\ UNCHANGED <<now, nextID, server, batch, mw, file, loc, held, hist>>

\* stack.Database().Drop(input.StackID)
DeleteDatabaseStackHandlerDrop(p) ==
    /\ pc[p] = "DeleteDatabaseStackHandler_Drop"
    /\ HandlerDatabaseLive(p)
    /\ IF local[p].database = Nil
       THEN /\ HandlerReturns(p, "DeleteDatabaseStackHandler", Nil, NoString, PanicNil, <<>>)
            /\ UNCHANGED Databases
       ELSE /\ CanLock(DbMx(local[p].dbid))
            /\ LET db == Databases[local[p].key]
                   found == DropKeys(db.Stacks, local[p].id) IN
               IF found = {}
               THEN /\ HandlerReturns(p, "DeleteDatabaseStackHandler", Nil, NoString,
                                      ErrNotFound, <<>>)
                    /\ UNCHANGED Databases
               ELSE \E k \in found :
                        /\ Databases' = [Databases EXCEPT
                                            ![local[p].key].Stacks = DropEntry(@, k)]
                        /\ HandlerReturns(p, "DeleteDatabaseStackHandler", db.Stacks[k].ID,
                                          db.Stacks[k].Name, "nil", <<>>)
    /\ UNCHANGED <<now, nextID, server, batch, mw, file, loc, held, hist>>

-----------------------------------------------------------------------------
(* TimeoutMiddleware (handlers/mw.go).  mw is one request going through    *)
(* the middleware: param the text of its timeout parameter; main where the *)
(* goroutine of the middleware stands (idle, parse, next: inside           *)
(* next.ServeHTTP on the path without deadline, select, error: inside      *)
(* http.Error after the deadline, returned); handler where the wrapped     *)
(* handler stands (none: not invoked, running, writing: inside its write   *)
(* to w, written, send: at doneChan <- true, returned); goroutine, whether *)
(* the handler runs in the goroutine the middleware started; deadline the  *)
(* time ctx expires (0: none); finished the time next.ServeHTTP returned;  *)
(* w the status codes given to WriteHeader on the ResponseWriter, in       *)
(* order, each with who gave it and whether the middleware had returned.   *)
(* The response carries the first of them.                                 *)

NoParam == [form |-> "empty", n |-> 0]

Text == [form |-> "text", n |-> 0]

Digits(k) == [form |-> "digits", n |-> k]

\* strconv.Atoi: the number, and whether it returned an error.
Atoi(s) == IF s.form = "digits" THEN [n |-> s.n, err |-> FALSE] ELSE [n |-> 0, err |-> TRUE]

StatusRequestTimeout == 408

Unfinished == 0 - 1

NoRequest ==
    [param |-> NoParam, main |-> "idle", handler |-> "none", goroutine |-> FALSE,
     deadline |-> 0, finished |-> Unfinished, status |-> 0, w |-> <<>>]

WriteHeader(by, code) == [by |-> by, code |-> code, returned |-> mw.main = "returned"]

\* A request arrives; the wrapped handler would answer it with status.
MiddlewareRequest(params, statuses) ==
    /\ mw = NoRequest
    /\ \E param \in params : \E status \in statuses :
           mw' = [NoRequest EXCEPT !.param = param, !.status = status, !.main = "parse"]
    /\ UNCHANGED <<Databases, now, nextID, server, batch, local, file, pc, loc, held, ret, hist>>

\* From the read of the parameter to next.ServeHTTP, http.Error or select.
TimeoutMiddleware ==
    /\ mw.main = "parse"
    /\ LET timeoutMs == Atoi(mw.param) IN
       IF mw.param = NoParam
       THEN mw' = [mw EXCEPT !.main = "next", !.handler = "running"]
       ELSE IF timeoutMs.err \/ timeoutMs.n < 0
       THEN mw' = [mw EXCEPT !.main = "returned",
                             !.w = Append(@, WriteHeader("middleware", StatusBadRequest))]
       ELSE IF timeoutMs.n = 0
       THEN mw' = [mw EXCEPT !.main = "next", !.handler = "running"]
       ELSE mw' = [mw EXCEPT !.main = "select", !.handler = "running", !.goroutine = TRUE,
                             !.deadline = now + timeoutMs.n]
    /\ UNCHANGED <<Databases, now, nextID, server, batch, local, file, pc, loc, held, ret, hist>>

\* The wrapped handler begins to write its response: w.WriteHeader(status).
HandlerWriteHeader ==
    /\ mw.handler = "running"
    /\ mw' = [mw EXCEPT !.handler = "writing",
                        !.w = Append(@, WriteHeader("handler", mw.status))]
    /\ UNCHANGED <<Databases, now, nextID, server, batch, local, file, pc, loc, held, ret, hist>>

\* The wrapped handler has written its response.
HandlerWritten ==
    /\ mw.handler = "writing"
    /\ mw' = [mw EXCEPT !.handler = "written"]
    /\ UNCHANGED <<Databases, now, nextID, server, batch, local, file, pc, loc, held, ret, hist>>

\* next.ServeHTTP returns: to the middleware, or in its goroutine to the
\* send on doneChan.
HandlerReturn ==
    /\ mw.handler = "written"
    /\ IF mw.goroutine
       THEN mw' = [mw EXCEPT !.handler = "send", !.finished = now]
       ELSE mw' = [mw EXCEPT !.handler = "returned", !.finished = now, !.main = "returned"]
    /\ UNCHANGED <<Databases, now, nextID, server, batch, local, file, pc, loc, held, ret, hist>>

\* case <-doneChan: the send and the receive meet, the goroutine ends and
\* the middleware returns.
SelectDone ==
    /\ mw.main = "select"
    /\ mw.handler = "send"
    /\ mw' = [mw EXCEPT !.main = "returned", !.handler = "returned"]
    /\ UNCHANGED <<Databases, now, nextID, server, batch, local, file, pc, loc, held, ret, hist>>

\* case <-ctx.Done() with ctx.Err() == context.DeadlineExceeded:
\* http.Error(w, ..., 408) begins.
SelectDeadline ==
    /\ mw.main = "select"
    /\ now >= mw.deadline
    /\ mw' = [mw EXCEPT !.main = "error",
                        !.w = Append(@, WriteHeader("middleware", StatusRequestTimeout))]
    /\ UNCHANGED <<Databases, now, nextID, server, batch, local, file, pc, loc, held, ret, hist>>

\* http.Error has written, and the middleware returns.
MiddlewareReturn ==
    /\ mw.main = "error"
    /\ mw' = [mw EXCEPT !.main = "returned"]
    /\ UNCHANGED <<Databases, now, nextID, server, batch, local, file, pc, loc, held, ret, hist>>

\* The request is over and its goroutines have ended.
RequestOver ==
    /\ mw.main = "returned"
    /\ mw.handler \in {"none", "returned"}
    /\ mw' = NoRequest
    /\ UNCHANGED <<Databases, now, nextID, server, batch, local, file, pc, loc, held, ret, hist>>

-----------------------------------------------------------------------------
(* Concurrent callers on one Stack.  The initial state is the one reached  *)
(* by Repository.New(Plain(1)) and, on the Database it returns,            *)
(* Database.New(Plain(1)), both at time 0, before the run: their           *)
(* identifiers are none of those uuid.New() hands out during the run.      *)

PriorDatabaseID == MaxID + 1

PriorStackID == MaxID + 2

Inputs == {Number(1), NilElement}

OneStack ==
    MapSet(EmptyMap, Plain(1),
           [NewDatabase(PriorDatabaseID, Plain(1)) EXCEPT
               !.Stacks = MapSet(EmptyMap, Plain(1),
                                 NewStack(PriorStackID, Plain(1), PriorDatabaseID, 0))])

InitOneStack ==
    /\ Databases = OneStack
    /\ now = 0
    /\ nextID = 0
    /\ file = NoFile
    /\ pc = [p \in Procs |-> "idle"]
    /\ loc = [p \in Procs |-> NoLoc]
    /\ held = [p \in Procs |-> {}]
    /\ ret = NoRet
    /\ server = Service("serving", TRUE)
    /\ batch = NoBatch
    /\ local = [p \in Procs |-> NoLocal]
    /\ mw = NoRequest

LifoOps ==
    \/ \E p \in Procs : PushCall(p, Inputs)
    \/ \E p \in Procs : PushLock(p)
    \/ \E p \in Procs : PushAppend(p)
    \/ \E p \in Procs : PushUpdatedAt(p)
    \/ \E p \in Procs : PopCall(p)
    \/ \E p \in Procs : PopLock(p)
    \/ \E p \in Procs : PopBody(p)
    \/ \E p \in Procs : SizeCall(p)
    \/ \E p \in Procs : SizeRLock(p)
    \/ \E p \in Procs : SizeBody(p)
    \/ \E p \in Procs : FlushCall(p)
    \/ \E p \in Procs : FlushLock(p)
    \/ \E p \in Procs : FlushBody(p)

PeekOps ==
    \/ \E p \in Procs : PeekCall(p)
    \/ \E p \in Procs : PeekRLock(p)
    \/ \E p \in Procs : PeekNow(p)
    \/ \E p \in Procs : PeekSetReadTime(p)

\* SpecLifo: Push, Pop, Size and Flush; the first MaxOps operations that
\* change the Stack are recorded in hist, the clock stands still.
InitLifo == InitOneStack /\ hist = <<>>

NextLifo == LifoOps

SpecLifo == InitLifo /\ [][NextLifo]_vars

\* SpecStack: every method of the Stack, in runs of any length against a
\* clock that advances, unrecorded.
InitStack == InitOneStack /\ hist = NoHist

NextStack == Tick \/ LifoOps \/ PeekOps

SpecStack == InitStack /\ [][NextStack]_vars

-----------------------------------------------------------------------------
(* SpecSnapshot: caller 1 persists the Repository while the other callers  *)
(* work on it.                                                             *)

PlainNames == {Plain(k) : k \in 1..NumPlain}

Others == Procs \ {1}

NextSnapshot ==
    \/ PersistCall(1)
    \/ PersistRLock(1)
    \/ PersistCreate(1)
    \/ PersistEncode(1)
    \/ PersistWrite(1)
    \/ \E p \in Others : PushCall(p, {Number(1)})
    \/ \E p \in Others : PushLock(p)
    \/ \E p \in Others : PushAppend(p)
    \/ \E p \in Others : PushUpdatedAt(p)
    \/ \E p \in Others : PopCall(p)
    \/ \E p \in Others : PopLock(p)
    \/ \E p \in Others : PopBody(p)
    \/ \E p \in Others : FlushCall(p)
    \/ \E p \in Others : FlushLock(p)
    \/ \E p \in Others : FlushBody(p)
    \/ \E p \in Others : RepositoryNewCall(p, PlainNames)
    \/ \E p \in Others : RepositoryNewLock(p)
    \/ \E p \in Others : RepositoryNewBody(p)
    \/ \E p \in Others : RepositoryNewInsert(p)
    \/ \E p \in Others : RepositoryDropCall(p, PlainNames)
    \/ \E p \in Others : RepositoryDropLock(p)
    \/ \E p \in Others : RepositoryDropBody(p)
    \/ \E p \in Others : DatabaseNewCall(p, PlainNames)
    \/ \E p \in Others : DatabaseNewLock(p)
    \/ \E p \in Others : DatabaseNewBody(p)
    \/ \E p \in Others : DatabaseNewInsert(p)
    \/ \E p \in Others : DatabaseDropCall(p, PlainNames)
    \/ \E p \in Others : DatabaseDropLock(p)
    \/ \E p \in Others : DatabaseDropBody(p)

SpecSnapshot == InitStack /\ [][NextSnapshot]_vars

-----------------------------------------------------------------------------
(* Spec: one caller creates, looks up and drops Databases and Stacks by    *)
(* name and by identifier, from the state repository.New() returns.        *)

NewNames == {Plain(k) : k \in 1..NumPlain} \cup {UUIDString(u) : u \in UUIDs}

InitRepository ==
    /\ Databases = EmptyMap
    /\ now = 0
    /\ nextID = 0
    /\ file = NoFile
    /\ pc = [p \in Procs |-> "idle"]
    /\ loc = [p \in Procs |-> NoLoc]
    /\ held = [p \in Procs |-> {}]
    /\ ret = NoRet
    /\ server = Service("serving", TRUE)
    /\ batch = NoBatch
    /\ local = [p \in Procs |-> NoLocal]
    /\ mw = NoRequest

Init == InitRepository /\ hist = NoHist

Next ==
    \/ RepositoryDatabaseCall(1, Strings)
    \/ RepositoryDatabaseRLock(1)
    \/ RepositoryDatabaseBody(1)
    \/ RepositoryNewCall(1, NewNames)
    \/ RepositoryNewLock(1)
    \/ RepositoryNewBody(1)
    \/ RepositoryNewInsert(1)
    \/ RepositoryDropCall(1, Strings)
    \/ RepositoryDropLock(1)
    \/ RepositoryDropBody(1)
    \/ DatabaseStackCall(1, Strings)
    \/ DatabaseStackRLock(1)
    \/ DatabaseStackBody(1)
    \/ DatabaseNewCall(1, NewNames)
    \/ DatabaseNewLock(1)
    \/ DatabaseNewBody(1)
    \/ DatabaseNewInsert(1)
    \/ DatabaseDropCall(1, Strings)
    \/ DatabaseDropLock(1)
    \/ DatabaseDropBody(1)

Spec == Init /\ [][Next]_vars

-----------------------------------------------------------------------------
(* SpecCreate: concurrent callers create and drop Databases and Stacks,    *)
(* from the state repository.New() returns; the first MaxOps returns of    *)
(* New and Drop are recorded in hist.                                      *)

InitCreate == InitRepository /\ hist = <<>>

NextCreate ==
    \/ \E p \in Procs : RepositoryNewCall(p, PlainNames)
    \/ \E p \in Procs : RepositoryNewLock(p)
    \/ \E p \in Procs : RepositoryNewBody(p)
    \/ \E p \in Procs : RepositoryNewInsert(p)
    \/ \E p \in Procs : RepositoryDropCall(p, PlainNames)
    \/ \E p \in Procs : RepositoryDropLock(p)
    \/ \E p \in Procs : RepositoryDropBody(p)
    \/ \E p \in Procs : DatabaseNewCall(p, {Plain(1)})
    \/ \E p \in Procs : DatabaseNewLock(p)
    \/ \E p \in Procs : DatabaseNewBody(p)
    \/ \E p \in Procs : DatabaseNewInsert(p)
    \/ \E p \in Procs : DatabaseDropCall(p, {Plain(1)})
    \/ \E p \in Procs : DatabaseDropLock(p)
    \/ \E p \in Procs : DatabaseDropBody(p)
    \/ \E p \in Procs : Detached(p)

SpecCreate == InitCreate /\ [][NextCreate]_vars

-----------------------------------------------------------------------------
(* SpecEnumerate: concurrent callers enumerate the Databases and the       *)
(* Stacks while they create and drop them, from a Repository of one        *)
(* Database of one Stack.                                                  *)

OneName == {Plain(1)}

\* The names given to New: one that sorts before the name of the Database
\* and the Stack there are, and one that sorts after it.
SortNames == {UUIDString(1), Plain(2)}

NextEnumerate ==
    \/ \E p \in Procs : RepositoryNewCall(p, SortNames)
    \/ \E p \in Procs : RepositoryNewLock(p)
    \/ \E p \in Procs : RepositoryNewBody(p)
    \/ \E p \in Procs : RepositoryNewInsert(p)
    \/ \E p \in Procs : RepositoryDropCall(p, OneName)
    \/ \E p \in Procs : RepositoryDropLock(p)
    \/ \E p \in Procs : RepositoryDropBody(p)
    \/ \E p \in Procs : DatabaseNewCall(p, SortNames)
    \/ \E p \in Procs : DatabaseNewLock(p)
    \/ \E p \in Procs : DatabaseNewBody(p)
    \/ \E p \in Procs : DatabaseNewInsert(p)
    \/ \E p \in Procs : DatabaseDropCall(p, OneName)
    \/ \E p \in Procs : DatabaseDropLock(p)
    \/ \E p \in Procs : DatabaseDropBody(p)
    \/ \E p \in Procs : RepositorySortDatabasesCall(p)
    \/ \E p \in Procs : RepositorySortDatabasesRLock(p)
    \/ \E p \in Procs : RepositorySortDatabasesBody(p)
    \/ \E p \in Procs : DatabaseSortStacksCall(p)
    \/ \E p \in Procs : DatabaseSortStacksRLock(p)
    \/ \E p \in Procs : DatabaseSortStacksBody(p)
    \/ \E p \in Procs : Detached(p)

SpecEnumerate == InitStack /\ [][NextEnumerate]_vars

-----------------------------------------------------------------------------
(* SpecReuse: concurrent callers create and drop Databases and Stacks,     *)
(* recorded in hist, from a Repository of one Database of one Stack.       *)

NextReuse ==
    \/ \E p \in Procs : RepositoryNewCall(p, OneName)
    \/ \E p \in Procs : RepositoryNewLock(p)
    \/ \E p \in Procs : RepositoryNewBody(p)
    \/ \E p \in Procs : RepositoryNewInsert(p)
    \/ \E p \in Procs : RepositoryDropCall(p, OneName)
    \/ \E p \in Procs : RepositoryDropLock(p)
    \/ \E p \in Procs : RepositoryDropBody(p)
    \/ \E p \in Procs : DatabaseNewCall(p, OneName)
    \/ \E p \in Procs : DatabaseNewLock(p)
    \/ \E p \in Procs : DatabaseNewBody(p)
    \/ \E p \in Procs : DatabaseNewInsert(p)
    \/ \E p \in Procs : DatabaseDropCall(p, OneName)
    \/ \E p \in Procs : DatabaseDropLock(p)
    \/ \E p \in Procs : DatabaseDropBody(p)
    \/ \E p \in Procs : Detached(p)

SpecReuse == InitLifo /\ [][NextReuse]_vars

-----------------------------------------------------------------------------
(* SpecLocks: concurrent callers call every method of the Repository, of   *)
(* its Database and of its Stack, Persist included.                        *)

\* The steps caller p takes inside a call it has made.
StepOf(p) ==
    \/ RepositoryDatabaseRLock(p) \/ RepositoryDatabaseBody(p)
    \/ RepositoryNewLock(p) \/ RepositoryNewBody(p) \/ RepositoryNewInsert(p)
    \/ RepositoryDropLock(p) \/ RepositoryDropBody(p)
    \/ DatabaseStackRLock(p) \/ DatabaseStackBody(p)
    \/ DatabaseNewLock(p) \/ DatabaseNewBody(p) \/ DatabaseNewInsert(p)
    \/ DatabaseDropLock(p) \/ DatabaseDropBody(p)
    \/ RepositorySortDatabasesRLock(p) \/ RepositorySortDatabasesBody(p)
    \/ DatabaseSortStacksRLock(p) \/ DatabaseSortStacksBody(p)
    \/ PushLock(p) \/ PushAppend(p) \/ PushUpdatedAt(p)
    \/ PopLock(p) \/ PopBody(p)
    \/ SizeRLock(p) \/ SizeBody(p)
    \/ PeekRLock(p) \/ PeekNow(p) \/ PeekSetReadTime(p)
    \/ FlushLock(p) \/ FlushBody(p)
    \/ PersistRLock(p) \/ PersistCreate(p) \/ PersistEncode(p) \/ PersistWrite(p)
    \/ Detached(p)

CallOf(p) ==
    \/ RepositoryDatabaseCall(p, OneName)
    \/ RepositoryNewCall(p, OneName)
    \/ RepositoryDropCall(p, OneName)
    \/ DatabaseStackCall(p, OneName)
    \/ DatabaseNewCall(p, OneName)
    \/ DatabaseDropCall(p, OneName)
    \/ RepositorySortDatabasesCall(p)
    \/ DatabaseSortStacksCall(p)
    \/ PushCall(p, {Number(1)})
    \/ PopCall(p)
    \/ SizeCall(p)
    \/ PeekCall(p)
    \/ FlushCall(p)
    \/ PersistCall(p)

NextLocks ==
    \/ \E p \in Procs : CallOf(p)
    \/ \E p \in Procs : StepOf(p)

SpecLocks == InitStack /\ [][NextLocks]_vars

-----------------------------------------------------------------------------
(* SpecPersist: one caller builds a Repository, persists it and loads it,  *)
(* from the state repository.New() returns, against a clock that advances. *)

NextPersist ==
    \/ Tick
    \/ RepositoryNewCall(1, PlainNames)
    \/ RepositoryNewLock(1)
    \/ RepositoryNewBody(1)
    \/ RepositoryNewInsert(1)
    \/ RepositoryDropCall(1, PlainNames)
    \/ RepositoryDropLock(1)
    \/ RepositoryDropBody(1)
    \/ DatabaseNewCall(1, {Plain(1)})
    \/ DatabaseNewLock(1)
    \/ DatabaseNewBody(1)
    \/ DatabaseNewInsert(1)
    \/ PushCall(1, Elements)
    \/ PushLock(1)
    \/ PushAppend(1)
    \/ PushUpdatedAt(1)
    \/ PersistCall(1)
    \/ PersistRLock(1)
    \/ PersistCreate(1)
    \/ PersistEncode(1)
    \/ PersistWrite(1)
    \/ LoadCall(1)
    \/ LoadOpen(1)
    \/ LoadDecode(1)

SpecPersist == Init /\ [][NextPersist]_vars

-----------------------------------------------------------------------------
(* SpecLoad: one caller looks up, by name and by identifier, the Stack of  *)
(* a Repository of one Database, pushes and pops on it, persists the       *)
(* Repository and loads it, starting with no                               *)
(* file; creating and writing the file can fail, and a valid file can be   *)
(* damaged.                                                                *)

NextLoad ==
    \/ PushCall(1, {Number(1), Object})
    \/ PushLock(1)
    \/ PushAppend(1)
    \/ PushUpdatedAt(1)
    \/ PopCall(1)
    \/ PopLock(1)
    \/ PopBody(1)
    \/ RepositoryDropCall(1, OneName)
    \/ RepositoryDropLock(1)
    \/ RepositoryDropBody(1)
    \/ DatabaseStackCall(1, {Plain(1), UUIDString(PriorStackID)})
    \/ DatabaseStackRLock(1)
    \/ DatabaseStackBody(1)
    \/ PersistCall(1)
    \/ PersistRLock(1)
    \/ PersistCreate(1)
    \/ PersistCreateFails(1)
    \/ PersistEncode(1)
    \/ PersistWrite(1)
    \/ PersistWriteFails(1)
    \/ FileCorrupted
    \/ LoadCall(1)
    \/ LoadOpen(1)
    \/ LoadDecode(1)

SpecLoad == InitStack /\ [][NextLoad]_vars

-----------------------------------------------------------------------------
(* SpecService: the Service is started on the Repository repository.New()  *)
(* returns, with or without persistence, where there is no repo file, or   *)
(* the file an earlier run saved, or the file a failed Persist left; it    *)
(* serves requests and is shut down.                                       *)

InitService ==
    /\ Databases = EmptyMap
    /\ now = 0
    /\ nextID = 0
    /\ file \in {NoFile, PartialFile, ValidFile(GobRepository(OneStack))}
    /\ pc = [p \in Procs |-> "idle"]
    /\ loc = [p \in Procs |-> NoLoc]
    /\ held = [p \in Procs |-> {}]
    /\ ret = NoRet
    /\ server \in {Service("new", persist) : persist \in BOOLEAN}
    /\ batch = NoBatch
    /\ local = [p \in Procs |-> NoLocal]
    /\ mw = NoRequest
    /\ hist = NoHist

NextService ==
    \/ ServiceListen
    \/ ServiceLoadToFile
    \/ ServiceLoad
    \/ LoadOpen(1)
    \/ LoadDecode(1)
    \/ ServiceServe
    \/ \E p \in Handlers : HandlerCall(p)
    \/ \E p \in Handlers : HandlerStep(p)
    \/ ServiceShutdown
    \/ ServerShutdownIdle
    \/ ServerShutdownDeadline
    \/ ServiceSaveToFile
    \/ ServiceSave
    \/ PersistRLock(1)
    \/ PersistCreate(1)
    \/ PersistCreateFails(1)
    \/ PersistEncode(1)
    \/ PersistWrite(1)
    \/ ServiceShutdownReturn

SpecService == InitService /\ [][NextService]_vars

-----------------------------------------------------------------------------
(* SpecRun: ServerCmd.Run.  Start and Shutdown race on the Repository      *)
(* repository.New() returns and on the repo file, which an earlier run     *)
(* saved, or which is not there.                                           *)

InitRun ==
    /\ InitService
    /\ file \in {NoFile, ValidFile(GobRepository(OneStack))}

NextRun ==
    \/ ServiceListen
    \/ ServiceLoadToFile
    \/ RunStartLoad
    \/ RunStartLoadOpen
    \/ RunStartLoadDecode
    \/ ServiceServe
    \/ RunShutdown
    \/ RunServerShutdown
    \/ RunSaveToFile
    \/ RunSave
    \/ PersistRLock(2)
    \/ PersistCreate(2)
    \/ RunSaveCreateFails
    \/ PersistEncode(2)
    \/ RunSaveWrite
    \/ RunShutdownReturn

SpecRun == InitRun /\ [][NextRun]_vars

-----------------------------------------------------------------------------
(* SpecBatch: one client sends batches, one after the other, to a Service  *)
(* whose Repository holds one Database with one Stack.                     *)

\* The operations of a batch: every type on the Stack there is, by name and
\* by identifier, a push without element, a type there is not, a Database
\* there is not, a Stack there is not.
BatchOperations ==
    {BatchOperation("push", Plain(1), Plain(1), e) : e \in {Number(1), Number(2), NilElement}}
        \cup {BatchOperation(t, Plain(1), Plain(1), NilElement) : t \in {"pop", "peek", "flush", "sort"}}
        \cup {BatchOperation("pop", UUIDString(PriorDatabaseID), UUIDString(PriorStackID), NilElement),
              BatchOperation("push", Plain(2), Plain(1), Number(1)),
              BatchOperation("push", Plain(1), Plain(2), Number(1))}

BatchInputs == UNION {[1..n -> BatchOperations] : n \in 0..MaxBatch}

NextBatch ==
    \/ BatchOperationsHandlerCall(1, BatchInputs)
    \/ BatchOperationsHandlerRange(1)
    \/ BatchOperationsHandlerReturn(1)

SpecBatch == InitStack /\ [][NextBatch]_vars

-----------------------------------------------------------------------------
(* SpecMiddleware: requests go through TimeoutMiddleware one after the     *)
(* other, without timeout parameter, with a text, a negative number, 0 and *)
(* a number of ticks of the clock; the wrapped handler takes any time.     *)

TimeoutParams == {NoParam, Text} \cup {Digits(k) : k \in (0 - 1)..MaxClock}

HandlerStatuses == {StatusOK, StatusNotFound}

NextMiddleware ==
    \/ MiddlewareRequest(TimeoutParams, HandlerStatuses)
    \/ TimeoutMiddleware
    \/ HandlerWriteHeader
    \/ HandlerWritten
    \/ HandlerReturn
    \/ SelectDone
    \/ SelectDeadline
    \/ MiddlewareReturn
    \/ RequestOver
    \/ Tick

SpecMiddleware == Init /\ [][NextMiddleware]_vars

-----------------------------------------------------------------------------
(* SpecList: caller 1 asks for the list of the Stacks of the Database      *)
(* while the other callers create and drop Stacks in it.                   *)

ListNames == {Plain(1), Plain(2)}

NextList ==
    \/ ListDatabaseStacksHandlerCall(1, {Plain(1), Plain(2)})
    \/ ListDatabaseStacksHandlerDatabase(1)
    \/ ListDatabaseStacksHandlerLen(1)
    \/ ListDatabaseStacksHandlerSortStacks(1)
    \/ ListDatabaseStacksHandlerRange(1)
    \/ \E p \in Others : DatabaseNewCall(p, ListNames)
    \/ \E p \in Others : DatabaseNewLock(p)
    \/ \E p \in Others : DatabaseNewBody(p)
    \/ \E p \in Others : DatabaseNewInsert(p)
    \/ \E p \in Others : DatabaseDropCall(p, ListNames)
    \/ \E p \in Others : DatabaseDropLock(p)
    \/ \E p \in Others : DatabaseDropBody(p)

SpecList == InitStack /\ [][NextList]_vars

-----------------------------------------------------------------------------
(* SpecDelete: caller 1 deletes the Stack, addressed by its name or by its *)
(* identifier, while the other callers drop Stacks of that Database and    *)
(* create Stacks in it: of the same name, and of a name that is the text   *)
(* of the identifier.                                                      *)

DeleteNames == {Plain(1), UUIDString(PriorStackID)}

NextDelete ==
    \/ DeleteDatabaseStackHandlerCall(1, {Plain(1), Plain(2)}, DeleteNames)
    \/ DeleteDatabaseStackHandlerDatabase(1)
    \/ DeleteDatabaseStackHandlerStack(1)
    \/ DeleteDatabaseStackHandlerDrop(1)
    \/ \E p \in Others : DatabaseNewCall(p, DeleteNames)
    \/ \E p \in Others : DatabaseNewLock(p)
    \/ \E p \in Others : DatabaseNewBody(p)
    \/ \E p \in Others : DatabaseNewInsert(p)
    \/ \E p \in Others : DatabaseDropCall(p, DeleteNames)
    \/ \E p \in Others : DatabaseDropLock(p)
    \/ \E p \in Others : DatabaseDropBody(p)

SpecDelete == InitStack /\ [][NextDelete]_vars

-----------------------------------------------------------------------------
(* Claims.                                                                 *)

TheStack == Databases[Plain(1)].Stacks[Plain(1)]

\* hist is n Push events followed by k Pop events and nothing else.
PushesThenPops(n, k) ==
    /\ Recording
    /\ Len(hist) = n + k
    /\ \A i \in 1..n : hist[i].op = "Push"
    /\ \A i \in (n + 1)..(n + k) : hist[i].op = "Pop"

\* C1: when N pushes on a new Stack are followed by N pops and no other
\* operation changes the Stack in between, the i-th Pop returns the
\* (N+1-i)-th pushed element, and after the N-th Pop the Stack is empty and
\* Size returns 0.
C1_PopsReversePushes ==
    \A n \in 0..MaxOps : \A k \in 0..n :
        PushesThenPops(n, k) =>
            /\ \A i \in 1..k : hist[n + i].val = hist[n + 1 - i].val
            /\ Len(TheStack.Data) = n - k
            /\ (k = n /\ ret.op = "Size") => ret.val = Number(0)

C1_Witness ==
    /\ PushesThenPops(2, 2)
    /\ hist[1].val # hist[2].val
    /\ ret.op = "Size"

Occurrences(e, from, to) == Cardinality({i \in from..to : hist[i].val = e})

\* C2: when the callers' pushes, in whatever order their lock acquisitions
\* interleave, are followed by as many pops, every pushed element is
\* returned by exactly one Pop and the Stack is empty afterwards.
C2_ConcurrentPushesAllPopped ==
    \A n \in 0..MaxOps :
        PushesThenPops(n, n) =>
            /\ \A e \in Inputs : Occurrences(e, 1, n) = Occurrences(e, n + 1, 2 * n)
            /\ TheStack.Data = <<>>

C2_Witness ==
    /\ PushesThenPops(2, 2)
    /\ hist[1].conc
    /\ hist[1].val # hist[2].val

\* C3: in every reachable state ReadAt >= UpdatedAt >= CreatedAt holds of
\* every Stack.
C3_TimestampsOrdered ==
    \A d \in DOMAIN Databases : \A n \in DOMAIN Databases[d].Stacks :
        LET s == Databases[d].Stacks[n] IN
            s.ReadAt >= s.UpdatedAt /\ s.UpdatedAt >= s.CreatedAt

\* The collections of the hierarchy: the Repository's Databases and each
\* Database's Stacks.
Collections == {Databases} \cup {Databases[d].Stacks : d \in DOMAIN Databases}

Found(m, id) == LookupKeys(m, id) # {}

\* Caller p's step makes one of New, Drop, Push, Pop, Flush take effect.
TakesEffect(p) ==
    /\ pc[p] \in {"Repository.New_body", "Repository.Drop_body", "Database.New_body",
                  "Database.Drop_body", "Push_append", "Push_UpdatedAt", "Pop_body",
                  "Flush_body"}
    /\ pc'[p] # pc[p]
    /\ Databases' # Databases

\* Caller q is inside Encode before and after the step.
Serializing(q) ==
    pc[q] = "Repository.Persist_encode" /\ pc'[q] = "Repository.Persist_encode"

\* C4: between the start and the end of Persist's serialization no New or
\* Drop of a Database or a Stack and no Push, Pop or Flush takes effect.
C4_NoChangeWhilePersisting ==
    [][(\E q \in Procs : Serializing(q)) => \A p \in Procs : ~TakesEffect(p)]_vars

\* C5: after a successful Load of a valid file the Repository holds exactly
\* the Databases of the file, each with its stored identifier, Stacks and
\* timestamps.
C5_LoadReplacesContents ==
    (ret.op = "Repository.Load" /\ ret.err = "nil" /\ file.state = "valid")
        => GobRepository(Databases) = file.content

\* C6: Persist of any Repository succeeds, and Load of the file into a
\* fresh Repository yields the same Database names and identifiers and the
\* same Stack names, identifiers, timestamps and element sequences.
C6_PersistLoadRoundTrip ==
    ret.op = "Repository.Persist" =>
        /\ ret.err = "nil"
        /\ file.state = "valid"
        /\ GobRepository(GobDecode(EmptyMap, file.content)) = GobRepository(Databases)

\* C7: lookup of an entry's identifier and lookup of its name both succeed
\* and return that entry, whatever its name.
C7_LookupByIdentifierAndByName ==
    \A m \in Collections : \A k \in DOMAIN m :
        /\ LookupKeys(m, UUIDString(m[k].ID)) = {k}
        /\ LookupKeys(m, m[k].Name) = {k}

\* C8: Drop(x) succeeds exactly when lookup(x) succeeds, and the entry it
\* removes is the entry lookup(x) returns.
C8_DropResolvesAsLookup ==
    \A m \in Collections : \A x \in Strings :
        /\ (DropKeys(m, x) # {}) <=> Found(m, x)
        /\ DropKeys(m, x) \subseteq LookupKeys(m, x)

\* What a Drop that returned r made of the collection m, now m2: a
\* successful Drop removed one entry, designated by r.id as its identifier
\* or its name, and nothing else, and lookup of that entry's identifier
\* fails; a failed Drop changed nothing.
DropRemovedOne(m, m2, r) ==
    IF r.err = "nil"
    THEN /\ \E k \in DOMAIN m :
                /\ m[k].ID = r.ent /\ m[k].Name = r.name
                /\ r.id = UUIDString(r.ent) \/ r.id = r.name
                /\ m2 = MapDelete(m, k)
                /\ Cardinality(DOMAIN m2) = Cardinality(DOMAIN m) - 1
         /\ ~Found(m2, UUIDString(r.ent))
    ELSE r.err = ErrNotFound /\ m2 = m

\* The removed entry's name no longer leads to it: the lookup fails, or the
\* name is a textual form of the identifier of an entry that is still
\* there, which the lookup returns.
NameLeadsElsewhere(m2, r) ==
    /\ r.name \notin DOMAIN m2
    /\ \A k \in LookupKeys(m2, r.name) :
           /\ m2[k].ID # r.ent
           /\ ParseOK(r.name) /\ m2[k].ID = UUIDParse(r.name)

DropPost(m, m2, r) ==
    DropRemovedOne(m, m2, r) /\ (r.err = "nil" => NameLeadsElsewhere(m2, r))

DropPostOriginal(m, m2, r) ==
    DropRemovedOne(m, m2, r) /\ (r.err = "nil" => ~Found(m2, r.name))

NewPost(m, m2, n, r) ==
    IF \E k \in DOMAIN m : m[k].Name = n
    THEN r.err = ErrAlreadyExists /\ m2 = m
    ELSE /\ r.err = "nil" /\ r.name = n
         /\ n \in DOMAIN m2 /\ m2[n].Name = n /\ m2[n].ID = r.ent
         /\ Cardinality(DOMAIN m2) = Cardinality(DOMAIN m) + 1
         /\ \A k \in DOMAIN m : k \in DOMAIN m2 /\ m2[k] = m[k]

\* C10: New with a name in use at that level fails with ErrAlreadyExists and
\* changes nothing; a successful New adds exactly one entry, which has the
\* given name, and leaves every other entry as it was.
C10_NewRejectsDuplicate ==
    [][\A p \in Procs :
          /\ Returns(p, "Repository.New_body") \/ Returns(p, "Repository.New_insert") =>
                 NewPost(Databases, Databases', loc[p].id, ret')
          /\ Returns(p, "Database.New_body") \/ Returns(p, "Database.New_insert") =>
                 /\ NewPost(DatabaseOf(p).Stacks, Databases'[loc[p].db].Stacks, loc[p].id, ret')
                 /\ Databases' = [Databases EXCEPT ![loc[p].db].Stacks = Databases'[loc[p].db].Stacks]
      ]_vars

C10_Witness ==
    /\ ret.op = "Repository.New"
    /\ ret.err = ErrAlreadyExists
    /\ ret.id \in DOMAIN Databases

IsNew(e) == e.op \in {"Repository.New", "Database.New"}

IsDrop(e) == e.op \in {"Repository.Drop", "Database.Drop"}

\* The name a New asked for, the name of the entry a Drop removed.
EntryName(e) == IF IsDrop(e) THEN e.name ELSE e.id

\* Two successful events about the same name in the same collection.
SameEntry(e, f) ==
    /\ IsNew(e) \/ IsDrop(e)
    /\ (e.op \in {"Repository.New", "Repository.Drop"})
           <=> (f.op \in {"Repository.New", "Repository.Drop"})
    /\ e.dbid = f.dbid
    /\ EntryName(e) = EntryName(f)

Latest(S) == CHOOSE i \in S : \A j \in S : j <= i

\* The name hist[j] is about was taken when hist[j] took effect: the latest
\* successful event about it was a New.
Taken(j) ==
    LET prior == {i \in 1..(j - 1) : hist[i].err = "nil" /\ SameEntry(hist[i], hist[j])} IN
    prior # {} /\ IsNew(hist[Latest(prior)])

KeyIsName == \A m \in Collections : \A k \in DOMAIN m : m[k].Name = k

\* C11: every Database and every Stack is stored under its Name, and a New
\* succeeds exactly when its name is not taken in its collection, else it
\* fails with ErrAlreadyExists: of the creates of one name, concurrent ones
\* included, one succeeds until that entry is dropped.
C11_NamesAreKeysAndUnique ==
    /\ KeyIsName
    /\ Recording =>
           \A j \in 1..Len(hist) :
               IsNew(hist[j]) =>
                   hist[j].err = IF Taken(j) THEN ErrAlreadyExists ELSE "nil"

C11_Witness ==
    /\ Recording
    /\ \E i, j \in 1..Len(hist) :
           /\ i < j
           /\ IsNew(hist[i]) /\ hist[i].conc /\ hist[i].err = "nil"
           /\ IsNew(hist[j]) /\ SameEntry(hist[i], hist[j]) /\ hist[j].err = ErrAlreadyExists
           /\ \A k \in (i + 1)..(j - 1) : ~SameEntry(hist[k], hist[i])

\* The steps at which a caller asks for a lock.
LockSteps ==
    {"Repository.Database_rlock", "Repository.New_lock", "Repository.Drop_lock",
     "Repository.Persist_rlock", "Database.Stack_rlock", "Database.New_lock",
     "Database.Drop_lock", "Repository.SortDatabases_rlock", "Database.SortStacks_rlock",
     "Push_lock", "Pop_lock", "Size_rlock", "Peek_rlock", "Flush_lock"}

\* C12: a caller asks for a lock only while it holds none and never holds
\* two; so no deadlock is reachable, and every call under way can take its
\* next step or waits for a lock whose holder can take its next step.
C12_OneLockAtATime ==
    \A p \in Procs :
        /\ Cardinality(held[p]) <= 1
        /\ pc[p] \in LockSteps => held[p] = {}
        /\ pc[p] = "idle" => held[p] = {}
        /\ pc[p] # "idle" =>
               \/ ENABLED StepOf(p)
               \/ \E q \in Procs \ {p} : held[q] # {} /\ ENABLED StepOf(q)

C12_Witness ==
    \E p, q \in Procs :
        /\ pc[p] = "Repository.Persist_encode"
        /\ pc[q] = "Repository.Drop_lock"
        /\ ~ENABLED StepOf(q)

\* The state a Stack's lock guards: its elements and its timestamps.
Guarded(st) == <<st.Data, st.CreatedAt, st.UpdatedAt, st.ReadAt>>

\* C13: every step that writes a Stack's elements or timestamps is taken
\* while a caller holds that Stack's lock exclusively.
C13_StackWritesUnderWriteLock ==
    [][\A d \in DOMAIN Databases \cap DOMAIN Databases' :
          \A k \in DOMAIN Databases[d].Stacks \cap DOMAIN Databases'[d].Stacks :
              LET st == Databases[d].Stacks[k] IN
              (Databases'[d].Stacks[k].ID = st.ID /\ Guarded(Databases'[d].Stacks[k]) # Guarded(st))
                  => \E p \in Procs : <<StackMx(st.ID), "W">> \in held[p]
      ]_vars

\* C14: Pop on an empty Stack returns no value and no error, leaves the
\* Stack empty, sets ReadAt to the time of the call and leaves UpdatedAt and
\* CreatedAt as they were.
C14_PopOnEmpty ==
    [][\A p \in Procs :
          (Returns(p, "Pop_body") /\ Len(TheStack.Data) = 0) =>
              /\ ret'.op = "Pop" /\ ret'.val = NilElement /\ ret'.err = "nil"
              /\ TheStack'.Data = <<>>
              /\ TheStack'.ReadAt = now
              /\ TheStack'.UpdatedAt = TheStack.UpdatedAt
              /\ TheStack'.CreatedAt = TheStack.CreatedAt
      ]_vars

C14_Witness ==
    /\ ret.op = "Pop" /\ ret.val = NilElement
    /\ TheStack.Data = <<>>
    /\ TheStack.ReadAt = now
    /\ TheStack.ReadAt > TheStack.UpdatedAt
    /\ TheStack.UpdatedAt > TheStack.CreatedAt

\* C15: Pop returns no value, and the pop handler answers 204, exactly when
\* the Stack was empty when Pop ran.
C15_NoValueIffEmpty ==
    [][\A p \in Procs :
          Returns(p, "Pop_body") =>
              /\ ret'.val = NilElement <=> Len(TheStack.Data) = 0
              /\ PopDatabaseStackHandler(ret'.val) = "204 No Content" <=> Len(TheStack.Data) = 0
      ]_vars

\* C16: Peek leaves the elements as they are, returns what a Pop of the
\* Stack it leaves would return (no value when empty), and of the
\* timestamps changes ReadAt only.
C16_PeekReadsTop ==
    [][\A p \in Procs :
          Returns(p, "Peek_setReadTime") =>
              /\ ret'.op = "Peek"
              /\ TheStack'.Data = TheStack.Data
              /\ ret'.val = PopResult(TheStack'.Data)
              /\ Len(TheStack.Data) = 0 => ret'.val = NilElement
              /\ TheStack' = [TheStack EXCEPT !.ReadAt = TheStack'.ReadAt]
      ]_vars

C16_Witness ==
    /\ ret.op = "Peek" /\ ret.val = Number(1)
    /\ TheStack.Data = <<NilElement, Number(1)>>
    /\ TheStack.ReadAt > TheStack.UpdatedAt

\* The number of elements the recorded operations leave: a Push adds one, a
\* Pop that finds an element takes one, a Flush takes all.
RECURSIVE Counted(_)
Counted(h) ==
    IF h = <<>> THEN 0
    ELSE LET e == h[Len(h)]
             n == Counted(ButLast(h))
         IN CASE e.op = "Push" -> n + 1
              [] e.op = "Pop" -> IF n = 0 THEN 0 ELSE n - 1
              [] e.op = "Flush" -> 0
              [] OTHER -> n

\* C17: Size returns the number of elements in the Stack, which is the
\* number of pushes less the pops that found an element since the Stack was
\* created or last flushed, and changes neither the elements nor a
\* timestamp.
C17_SizeCounts ==
    [][\A p \in Procs :
          Returns(p, "Size_body") =>
              /\ ret'.op = "Size"
              /\ ret'.val = Number(Len(TheStack.Data))
              /\ Recording => ret'.val = Number(Counted(hist))
              /\ Databases' = Databases
              /\ hist' = hist
      ]_vars

C17_Witness ==
    /\ Recording /\ Len(hist) = 4
    /\ hist[1].op = "Push" /\ hist[2].op = "Flush" /\ hist[3].op = "Pop" /\ hist[4].op = "Push"
    /\ ret.op = "Size" /\ ret.val = Number(1)

\* C18: Flush leaves the Stack empty, so that Size counts 0 and Peek and Pop
\* find no value, sets UpdatedAt and ReadAt to the time of the call, and
\* leaves ID, Name and CreatedAt as they were.
C18_FlushEmpties ==
    [][\A p \in Procs :
          Returns(p, "Flush_body") =>
              /\ TheStack'.Data = <<>>
              /\ SizeResult(TheStack'.Data) = 0
              /\ PeekResult(TheStack'.Data) = NilElement
              /\ PopResult(TheStack'.Data) = NilElement
              /\ TheStack'.UpdatedAt = now /\ TheStack'.ReadAt = now
              /\ TheStack' = [TheStack EXCEPT !.Data = <<>>, !.UpdatedAt = now, !.ReadAt = now]
      ]_vars

C18_Witness ==
    /\ ret.op = "Flush"
    /\ TheStack.Data = <<>>
    /\ TheStack.UpdatedAt = now /\ TheStack.ReadAt = now
    /\ TheStack.CreatedAt < TheStack.UpdatedAt

\* The list holds every entry of the map m once and no other, by name
\* ascending.
Enumerates(list, m) ==
    /\ Len(list) = Cardinality(DOMAIN m)
    /\ \A k \in DOMAIN m : \E i \in DOMAIN list : list[i] = [ID |-> m[k].ID, Name |-> m[k].Name]
    /\ \A i, j \in DOMAIN list : i < j => StringLess(list[i].Name, list[j].Name)

\* C19: SortDatabases and SortStacks return every entry the collection
\* holds when they run, each once, by name ascending, and change nothing.
C19_EnumerationSorted ==
    [][\A p \in Procs :
          /\ Returns(p, "Repository.SortDatabases_body") =>
                 /\ ret'.op = "Repository.SortDatabases"
                 /\ Enumerates(ret'.list, Databases)
                 /\ Databases' = Databases
          /\ (Returns(p, "Database.SortStacks_body") /\ LiveDatabase(p)) =>
                 /\ ret'.op = "Database.SortStacks"
                 /\ Enumerates(ret'.list, DatabaseOf(p).Stacks)
                 /\ Databases' = Databases
      ]_vars

\* An enumeration of three entries in which the entry created last comes
\* first and the entry created before it comes last.
C19_Witness ==
    /\ ret.op \in {"Repository.SortDatabases", "Database.SortStacks"}
    /\ Len(ret.list) = 3
    /\ ret.list[3].ID < ret.list[1].ID
    /\ ret.list[1].ID <= MaxID

\* C20: a Load that finds no file returns no error and leaves the
\* Repository as it was.
C20_LoadWithoutFile ==
    [][\A p \in Procs :
          (/\ pc[p] \in {"Repository.Load_open", "Repository.Load_decode"}
           /\ pc'[p] = "idle"
           /\ file.state = "absent") =>
              /\ ret'.op = "Repository.Load"
              /\ ret'.err = "nil"
              /\ Databases' = Databases
              /\ file' = file
      ]_vars

C20_Witness ==
    /\ ret.op = "Repository.Load" /\ ret.err = "nil"
    /\ file.state = "absent"
    /\ Databases # EmptyMap
    /\ Len(TheStack.Data) = MaxLen

\* C21: a Load that returns an error leaves the Repository as it was.
C21_FailedLoadChangesNothing ==
    [][\A p \in Procs :
          (Returns(p, "Repository.Load_decode") /\ ret'.err # "nil") => Databases' = Databases
      ]_vars

\* Load takes the file f for a snapshot: it finds the file and decodes it
\* without error.
Accepted(f) == ~IsNotExist(f) /\ DecodeErr(f) = "nil"

\* A Persist of caller p returns an error in this step.
PersistFails(p) ==
    /\ Returns(p, "Repository.Persist_create") \/ Returns(p, "Repository.Persist_encode")
    /\ ret'.op = "Repository.Persist"
    /\ ret'.err # "nil"

\* C22: when Persist returns an error, either it could not create the file
\* and the file is the one there was before, or the file it leaves is one
\* Load does not take for a snapshot.
C22_FailedPersistLeavesNoPartialSnapshot ==
    [][\A p \in Procs :
          PersistFails(p) =>
              \/ pc[p] = "Repository.Persist_create" /\ file' = file
              \/ ~Accepted(file')
      ]_vars

\* C22 as stated: when Persist returns an error, the file at the path is
\* not one Load takes for a snapshot.
C22_FailedPersistLeavesNoSnapshot ==
    [][\A p \in Procs : PersistFails(p) => ~Accepted(file')]_vars

C22_Witness ==
    /\ ret.op = "Repository.Persist" /\ ret.err = ErrNotRegistered
    /\ file = PartialFile
    /\ \E i \in DOMAIN TheStack.Data : ~GobRegistered(TheStack.Data[i])

\* A lookup of id in the map m, where id parses to the identifier of an
\* entry of m, returned r: that entry, whatever entry id names.
IdentifierWins(m, id, r) ==
    (ParseOK(id) /\ \E k \in DOMAIN m : m[k].ID = UUIDParse(id)) =>
        /\ r.err = "nil"
        /\ r.ent = UUIDParse(id)
        /\ r.name \in DOMAIN m /\ m[r.name].ID = UUIDParse(id)

\* C23: a lookup whose input parses to the identifier of an entry returns
\* that entry, also when another entry has the input as its name.
C23_IdentifierMatchWins ==
    [][\A p \in Procs :
          /\ Returns(p, "Repository.Database_body") =>
                 IdentifierWins(Databases, loc[p].id, ret')
          /\ (Returns(p, "Database.Stack_body") /\ LiveDatabase(p)) =>
                 IdentifierWins(DatabaseOf(p).Stacks, loc[p].id, ret')
      ]_vars

\* A lookup returned the entry of the identifier while another entry has
\* the input as its name.
C23_Witness ==
    /\ ret.op = "Repository.Database" /\ ret.err = "nil"
    /\ ParseOK(ret.id) /\ ret.ent = UUIDParse(ret.id)
    /\ ret.id \in DOMAIN Databases
    /\ Databases[ret.id].ID # ret.ent
    /\ ret.name # ret.id

\* C24: the Stack that Database.Stack or Database.New returns has the
\* Database it was asked of as its Database().
C24_StackKnowsItsDatabase ==
    [][\A p \in Procs :
          ((Returns(p, "Database.Stack_body") \/ Returns(p, "Database.New_insert"))
               /\ LiveDatabase(p) /\ ret'.err = "nil") =>
              StackDatabase(Databases'[loc[p].db].Stacks[ret'.name]) = loc[p].dbid
      ]_vars

\* The places of the hierarchy: <<d>> is the Database under the key d,
\* <<d, k>> the Stack under the key k of that Database.
Places ==
    {<<d>> : d \in DOMAIN Databases}
        \cup UNION {{<<d, k>> : k \in DOMAIN Databases[d].Stacks} : d \in DOMAIN Databases}

IDAt(x) == IF Len(x) = 1 THEN Databases[x[1]].ID ELSE Databases[x[1]].Stacks[x[2]].ID

UniqueIDs == \A x, y \in Places : x # y => IDAt(x) # IDAt(y)

\* hist[j] is a New of a name whose entry was dropped last.
Recreates(j) ==
    LET prior == {i \in 1..(j - 1) : hist[i].err = "nil" /\ SameEntry(hist[i], hist[j])} IN
    IsNew(hist[j]) /\ prior # {} /\ IsDrop(hist[Latest(prior)])

\* A New of a name whose entry was dropped succeeds, with an identifier
\* that no entry created or dropped before it had.
ReuseGivesNewID ==
    Recording =>
        \A j \in 1..Len(hist) :
            Recreates(j) =>
                /\ hist[j].err = "nil"
                /\ \A i \in 1..(j - 1) : hist[i].err = "nil" => hist[i].ent # hist[j].ent

\* C25: a name is free again once its entry is dropped and an identifier is
\* never given twice: New of a dropped entry's name succeeds, the entry it
\* creates has an identifier no entry has or had, and a Database it creates
\* holds no Stack.
C25_NameReusedIdentifierNot ==
    [][/\ ReuseGivesNewID'
       /\ UniqueIDs'
       /\ \A p \in Procs :
              Returns(p, "Repository.New_insert") =>
                  /\ ret'.ent \notin {IDAt(x) : x \in Places}
                  /\ Databases'[loc[p].id].ID = ret'.ent
                  /\ Databases'[loc[p].id].Stacks = EmptyMap
      ]_vars

\* The Database of the Stack there was is dropped and a Database of its
\* name created, then the Stack of that name.
C25_Witness ==
    /\ Recording /\ Len(hist) = 3
    /\ hist[1].op = "Repository.Drop" /\ hist[1].err = "nil" /\ hist[1].ent = PriorDatabaseID
    /\ hist[2].op = "Repository.New" /\ hist[2].err = "nil" /\ hist[2].id = hist[1].name
    /\ hist[3].op = "Database.New" /\ hist[3].err = "nil" /\ hist[3].id = Plain(1)
    /\ hist[3].dbid = hist[2].ent
    /\ DOMAIN Databases[hist[2].id].Stacks = {Plain(1)}

\* A lookup of id in the map m, where id is no identifier and no name of an
\* entry of m, returned r: ErrNotFound and no entry.
UnknownNotFound(m, id, r) ==
    (~ParseOK(id) /\ id \notin DOMAIN m) => r.err = ErrNotFound /\ r.ent = Nil

ShutdownReturned == server.state \in {"timedout", "saved", "savefailed", "stopped"}

\* Caller 1 is inside Repository.Persist.
Saving ==
    pc[1] \in {"Repository.Persist_rlock", "Repository.Persist_create",
               "Repository.Persist_encode", "Repository.Persist_write"}

\* C27: whenever Shutdown of a Service with persistence has returned, it has
\* called Persist on the repo file, also when the shutdown of the HTTP
\* server ended with the error of its deadline; and Persist runs only while
\* no request is under way.
C27_ShutdownSaves ==
    /\ ShutdownReturned /\ server.persistDB => server.state \in {"saved", "savefailed"}
    /\ Saving => \A p \in Handlers : pc[p] = "idle"

\* Start has not come to serve: it has not begun, or listens, or loads, or
\* has returned an error.
NotServed == server.state \in {"new", "listening", "loading", "failed"}

\* Caller 1 is inside Repository.Load.
Loading ==
    pc[1] \in {"Repository.Load_open", "Repository.Load_decode"}

\* C28: until Start has loaded the Repository, and for ever when the load
\* failed, no request is under way and none has been handled; and Start
\* serves after a load only when the load returned no error.
C28_LoadBeforeServing ==
    /\ NotServed \/ Loading =>
           /\ \A p \in Handlers : pc[p] = "idle"
           /\ ret.p \notin Handlers
    /\ server.state = "loading" /\ pc[1] = "idle" /\ ret.op = "Repository.Load"
           /\ ret.err # "nil" =>
           ~ENABLED ServiceLoad /\ \A p \in Handlers : ~ENABLED HandlerCall(p)
    /\ server.state = "failed" /\ server.persistDB /\ ret.op = "Repository.Load" =>
           ret.err # "nil"
    /\ server.state \in {"serving", "closing", "closed", "timedout"} /\ server.persistDB =>
           IsNotExist(file) \/ Accepted(file)

\* A request pushes onto the Stack that Start loaded from the repo file.
C28_Witness ==
    /\ server.persistDB /\ Serving
    /\ \E p \in Handlers : pc[p] = "Push_append"
    /\ Databases # EmptyMap /\ nextID = 0

\* A turn of the range loop of BatchOperationsHandler.
Turn == batch.i >= 1 /\ batch'.i >= 1 /\ batch' # batch

\* The operation of the turn and the result the turn stored for it.
TurnOp == batch.ops[batch.i]

TurnResult == batch'.results[batch.i]

\* The operation of the turn names the Database and the Stack there are.
OnTheStack == TurnOp.Database = Plain(1) /\ TurnOp.Stack = Plain(1)

\* The result and the elements of the Stack after the turn are those of the
\* operation applied to the elements the Stack had before the turn.
AppliedToCurrent ==
    LET d == TheStack.Data IN
    CASE TurnOp.Type = "push" /\ TurnOp.Element # NilElement ->
             /\ TheStack'.Data = Append(d, TurnOp.Element)
             /\ TurnResult.Status = StatusOK /\ TurnResult.Result = TurnOp.Element
      [] TurnOp.Type = "pop" /\ Len(d) > 0 ->
             /\ TheStack'.Data = SubSeq(d, 1, Len(d) - 1)
             /\ TurnResult.Status = StatusOK /\ TurnResult.Result = d[Len(d)]
      [] TurnOp.Type = "pop" /\ Len(d) = 0 ->
             /\ TheStack'.Data = d
             /\ TurnResult.Status = StatusNoContent
      [] TurnOp.Type = "peek" ->
             /\ TheStack'.Data = d
             /\ TurnResult.Status = StatusOK
             /\ TurnResult.Result = IF Len(d) = 0 THEN NilElement ELSE d[Len(d)]
      [] TurnOp.Type = "flush" ->
             /\ TheStack'.Data = <<>>
             /\ TurnResult.Status = StatusOK
      [] OTHER -> TurnResult.Status = StatusBadRequest

\* C29: every turn of the loop of BatchOperationsHandler takes the operation
\* that follows the one of the turn before, whatever that one's result was,
\* stores its result at the index of the operation and leaves the other
\* results alone; an operation on the Stack is applied to the elements the
\* operations before it left; and the handler returns when every operation
\* has its result.
C29_BatchInOrder ==
    [][/\ Turn =>
            /\ batch.i <= Len(batch.ops)
            /\ batch'.i = batch.i + 1
            /\ Len(batch'.results) = Len(batch.ops)
            /\ TurnResult.Status # 0
            /\ \A k \in 1..Len(batch.ops) :
                   /\ k # batch.i => batch'.results[k] = batch.results[k]
                   /\ batch.results[k].Status # 0 <=> k < batch.i
            /\ OnTheStack => AppliedToCurrent
       /\ (\E p \in Procs : Returns(p, "BatchOperationsHandler_range")) =>
            /\ Len(batch.results) = Len(batch.ops)
            /\ \A k \in 1..Len(batch.ops) : batch.results[k].Status # 0
      ]_vars

\* A batch pushed an element, then named a Database there is not, then
\* popped: the pop returned the element the first operation pushed.
C29_Witness ==
    /\ pc[1] = "BatchOperationsHandler_range" /\ batch.i = 4
    /\ batch.ops[1].Type = "push" /\ batch.results[1].Status = StatusOK
    /\ batch.results[2].Status = StatusNotFound
    /\ batch.ops[3].Type = "pop" /\ batch.results[3].Status = StatusOK
    /\ batch.results[3].Result = batch.ops[1].Element

\* C30: a turn of the loop that stores an error result, 404 or 400, leaves
\* the Databases, their Stacks and the elements of every Stack as they were.
C30_ErrorResultChangesNoStack ==
    [][Turn /\ TurnResult.Status \in {StatusNotFound, StatusBadRequest} =>
           /\ DOMAIN Databases' = DOMAIN Databases
           /\ \A d \in DOMAIN Databases :
                  /\ DOMAIN Databases'[d].Stacks = DOMAIN Databases[d].Stacks
                  /\ \A s \in DOMAIN Databases[d].Stacks :
                         Databases'[d].Stacks[s].Data = Databases[d].Stacks[s].Data
      ]_vars

\* A push without element was answered with 400 while the Stack held an
\* element.
C30_Witness ==
    /\ pc[1] = "BatchOperationsHandler_range"
    /\ \E k \in 1..Len(batch.ops) :
           /\ k < batch.i
           /\ batch.ops[k].Type = "push" /\ batch.ops[k].Element = NilElement
           /\ batch.ops[k].Database = Plain(1) /\ batch.ops[k].Stack = Plain(1)
           /\ batch.results[k].Status = StatusBadRequest
    /\ Len(TheStack.Data) > 0

\* C32: no step of any caller of Push, Pop, Peek, Size and Flush, under a
\* clock that never goes backwards, sets the Stack's ReadAt or UpdatedAt to
\* an earlier time than the one it holds.
C32_TimestampsNeverDecrease ==
    [][/\ TheStack'.ReadAt >= TheStack.ReadAt
       /\ TheStack'.UpdatedAt >= TheStack.UpdatedAt]_vars

\* C33: the step in which Repository.Database or Database.Stack returns,
\* with an entry or with ErrNotFound, for an identifier or for a name,
\* leaves every field of the Repository, of its Databases and of their
\* Stacks as it was.
C33_LookupsReadOnly ==
    [][(\E p \in Procs : \/ Returns(p, "Repository.Database_body")
                          \/ Returns(p, "Database.Stack_body"))
           => Databases' = Databases]_vars

\* C34: ListDatabaseStacksHandler, whatever Database.New and Database.Drop
\* do to the Database meanwhile, does not panic on an index outside its
\* slice, and every entry of the list it returns is filled.
C34_ListFilled ==
    ret.op = "ListDatabaseStacksHandler" =>
        /\ ret.err # PanicIndex
        /\ \A i \in DOMAIN ret.list : ret.list[i] # ZeroEntry

\* C35: when DeleteDatabaseStackHandler has removed a Stack, whatever the
\* other callers dropped and created in the Database meanwhile, it is the
\* Stack the lookup of the handler resolved.
C35_DeletesTheResolvedStack ==
    [][\A p \in Procs :
          Returns(p, "DeleteDatabaseStackHandler_Drop") /\ ret'.err = "nil"
              => ret'.ent = local[p].stack]_vars

\* The status code the response of the request carries.
ResponseStatus == IF mw.w = <<>> THEN 0 ELSE mw.w[1].code

\* C31: when TimeoutMiddleware has returned: without timeout parameter or
\* with timeout 0 the handler ran without deadline and the response is its
\* own; with a text or a negative number the response is 400 and the handler
\* was not invoked; with a positive timeout the response is the handler's
\* own when the handler returned before the deadline, and 408 when it had
\* not returned by the deadline.
C31_TimeoutMiddleware ==
    mw.main = "returned" =>
        LET timeoutMs == Atoi(mw.param) IN
        IF mw.param = NoParam \/ (~timeoutMs.err /\ timeoutMs.n = 0)
        THEN mw.deadline = 0 /\ mw.handler = "returned" /\ ResponseStatus = mw.status
        ELSE IF timeoutMs.err \/ timeoutMs.n < 0
        THEN ResponseStatus = StatusBadRequest /\ mw.handler = "none"
        ELSE /\ mw.finished # Unfinished /\ mw.finished < mw.deadline
                   => ResponseStatus = mw.status
             /\ mw.finished = Unfinished \/ mw.finished > mw.deadline
                   => ResponseStatus = StatusRequestTimeout

\* C37: the goroutine of the wrapped handler is never at its send on
\* doneChan when the middleware has returned: then no receive would ever
\* take its signal and the goroutine would stay blocked for ever.
C37_HandlerGoroutineEnds == mw.handler = "send" => mw.main # "returned"

\* C38: the wrapped handler writes to the ResponseWriter neither after the
\* middleware wrote its 408 to it nor after the middleware returned, and
\* never while the middleware is writing to it.
C38_OneWriter ==
    /\ \A i \in DOMAIN mw.w :
           mw.w[i].by = "handler" =>
               /\ ~mw.w[i].returned
               /\ \A j \in 1..(i - 1) : mw.w[j].by # "middleware"
    /\ ~(mw.main = "error" /\ mw.handler = "writing")

\* Caller 2, inside the Persist of Shutdown, has created or truncated the
\* repo file and has not yet written the Repository to it.
ShutdownWrites ==
    pc[2] \in {"Repository.Persist_encode", "Repository.Persist_write"}

\* C36: with persistence, in ServerCmd.Run, the Persist of Shutdown creates
\* or truncates the repo file only when every Database of a Repository the
\* file holds is in the Repository in memory, as the file has it; and the
\* Load of Start does not read the file between the os.Create and the write
\* of that Persist.
C36_RunLosesNothing ==
    [][/\ pc[2] = "Repository.Persist_create" /\ file' # file /\ file.state = "valid"
            => GobDecode(Databases, file.content) = Databases
       /\ Returns(1, "Repository.Load_decode") => ~ShutdownWrites
      ]_vars

====
